---- MODULE Spec2Model ----
(***************************************************************************)
(* Model of the field-structure parser of ecfformat:                       *)
(*   core/constants.py, core/expectedfields.py, core/table.py,             *)
(*   core/parser.py and the parts of core/fields.py the parser calls.      *)
(*                                                                         *)
(* One step of the model is one iteration of the parser's loop over the    *)
(* '#' delimited fields of the text: _split_match, the dispatch through    *)
(* the live switch dict, the handler, and the loop's handling of the       *)
(* status the handler returned.  There is one action per handler.          *)
(*                                                                         *)
(* The tkinter Text widget is kept as what the parser reads back from it.  *)
(* The most recent field name whose text names a table type                *)
(* (_get_table_type) is the variable w_type.  The most recent field name   *)
(* range carrying a part or record tag (_pick_comment_tag) is not tracked: *)
(* each step takes any of them.  The identity tags computed in             *)
(* Fields._insert_name_value are not modelled.                             *)
(***************************************************************************)
EXTENDS Integers, Sequences, FiniteSets, TLC

VARIABLES
    pc,             \* where parse() is: "leading", "first", "rest", or how it ended
    stop_at,        \* the stop_at argument of parse()
    ef,             \* self._expected_fields
    table,          \* self._table
    switch,         \* the dict the loop dispatches through
    pin1_handler,   \* self._switch[PIN1]
    fields_message, \* self.fields.fields_message
    error_tag,      \* self.fields.error_tag
    tag_suffix,     \* self.tag_suffix of the Fields object of the editor
    widget,         \* widget: the name ranges that carry a suffixed tag
    document,       \* the tagon items of the dump file_open was given
    text,           \* the text: any, or the matches still to be read
    w_type,         \* widget: latest field name that is a table type
    field,          \* the field the last step took from the text
    tag,            \* its tag as _split_match gave it
    status,         \* status its handler returned, or the exception that
                    \* ended the handler or the loop's test of the status
    emitted,        \* what the last step inserted in the widget
    checks,         \* results of the boundary validations the last step ran
    last_part,      \* history: the part field most recently classified ok
    consumed,       \* history: the tags classified ok since the live
                    \* context was constructed
    aliased,        \* history: the alias pairs with a member classified ok
                    \* in the record and no field of the pair taken since
    accepted,       \* history, kept for a text given match by match: the
                    \* tags classified ok since the part or record opened
    builder,        \* the Builder object and the locals of its parse()
    header          \* the Header editor: the names of the fields in the
                    \* EVENT DETAILS record of its widget, the context of
                    \* its inserter, and the inserts its bindings offer

vars == <<pc, stop_at, ef, table, switch, pin1_handler, fields_message,
          error_tag, tag_suffix, widget, document, text, w_type, field, tag,
          status, emitted, checks, last_part,
          consumed, aliased, accepted, builder, header>>

---------------------------------------------------------------------------
(* constants.py: tag names *)

None == "None"

ADJUDICATED == "ADJUDICATED"
BCF_CODE == "BCFCODE"
BCF_NO == "BCFNO"
BOARD == "BOARD"
CLUB == "CLUB"
CLUB_CODE == "CLUBCODE"
CLUB_COUNTY == "CLUBCOUNTY"
CLUB_NAME == "CLUBNAME"
COLOUR == "COLOUR"
COLUMN == "COLUMN"
COMMENT == "COMMENT"
COMMENT_LIST == "COMMENTLIST"
COMMENT_PIN == "COMMENTPIN"
DATE_OF_BIRTH == "DATEOFBIRTH"
ECF_CODE == "ECFCODE"
ECF_NO == "ECFNO"
ENVIRONMENT == "ENVIRONMENT"
EVENT_CODE == "EVENTCODE"
EVENT_DATE == "EVENTDATE"
EVENT_DETAILS == "EVENT"
EVENT_NAME == "EVENTNAME"
FIDE_NO == "FIDENO"
FINAL_RESULT_DATE == "FINALRESULTDATE"
FINISH == "FINISH"
FORENAME == "FORENAME"
GAME_DATE == "GAMEDATE"
GENDER == "GENDER"
INFORM_FIDE == "INFORMFIDE"
INFORM_CHESSMOVES == "INFORMCHESSMOVES"
INFORM_GRAND_PRIX == "INFORMGRANDPRIX"
INFORM_UNION == "INFORMUNION"
INITIALS == "INITIALS"
MATCH_RESULTS == "MATCH"
MINUTES_FIRST_SESSION == "MINUTESFIRSTSESSION"
MINUTES_FOR_GAME == "MINUTESFORGAME"
MINUTES_REST_OF_GAME == "MINUTESRESTOFGAME"
MINUTES_SECOND_SESSION == "MINUTESSECONDSESSION"
MOVES_FIRST_SESSION == "MOVESFIRSTSESSION"
MOVES_SECOND_SESSION == "MOVESSECONDSESSION"
NAME == "NAME"
OTHER_RESULTS == "OTHER"
PIN == "PIN"
PIN1 == "HPIN"
PIN2 == "APIN"
PLAYER_LIST == "PLAYER"
RESULTS_DATE == "RESULTSDATE"
RESULTS_DUPLICATED == "RESULTSDUPLICATED"
RESULTS_OFFICER == "RESULTSOFFICER"
RESULTS_OFFICER_ADDRESS == "RESULTSOFFICERADDRESS"
ROUND == "ROUND"
SCORE == "SCORE"
SECONDS_PER_MOVE == "SECONDSPERMOVE"
SECTION_RESULTS == "SECTION"
SUBMISSION_INDEX == "SUBMISSIONINDEX"
SURNAME == "SURNAME"
TABLE_START == "TABLESTART"
TABLE_END == "TABLEEND"
TITLE == "TITLE"
TREASURER == "TREASURER"
TREASURER_ADDRESS == "TREASURERADDRESS"
WHITE_ON == "WHITEON"
TABLE_VALUE == ""

STATUS_OK == "ok"
STATUS_IGNORE == "ignore"
STATUS_TABLE_START == "table_start"
STATUS_TABLE_VALUE == "table_value"
STATUS_TABLE_END == "table_end"
STATUS_COLUMN == "column"
TAG_ERROR_UNKNOWN == "unknown"
TAG_ERROR_UNEXPECTED == "unexpected"
TAG_ERROR_TABLE_LAYOUT == "layout"

(* constants.py: sets of tag names *)

Range(s) == {s[i] : i \in DOMAIN s}

SUBPART_TAGS == {PIN, PIN1}
PART_TAGS == {EVENT_DETAILS, FINISH, MATCH_RESULTS, PLAYER_LIST,
              OTHER_RESULTS, SECTION_RESULTS}
RECORD_TAGS == {MATCH_RESULTS, PLAYER_LIST, OTHER_RESULTS, SECTION_RESULTS}
TABLE_TYPES == RECORD_TAGS
PARSE_STOP_AT_FIELDS == PART_TAGS
FIELDS_ALLOWED_IN_MATCH ==
    <<PIN1, PIN2, SCORE, COLOUR, BOARD, GAME_DATE, COMMENT>>
FIELDS_ALLOWED_IN_OTHER == <<PIN1, PIN2, SCORE, COLOUR, GAME_DATE, COMMENT>>
FIELDS_ALLOWED_IN_SECTION ==
    <<PIN1, PIN2, SCORE, COLOUR, ROUND, GAME_DATE, COMMENT>>
FIELDS_ALLOWED_IN_PLAYERS ==
    <<PIN, ECF_CODE, NAME, SURNAME, FORENAME, INITIALS, GENDER, TITLE,
      DATE_OF_BIRTH, CLUB_CODE, CLUB_NAME, CLUB_COUNTY, ECF_NO, FIDE_NO,
      COMMENT, BCF_CODE, BCF_NO, CLUB>>
PIN_SET_TERMINATORS ==
    {COLUMN, FINISH, MATCH_RESULTS, OTHER_RESULTS, SECTION_RESULTS}
PIN1_SET_TERMINATORS == PIN_SET_TERMINATORS
PLAYERS_SET_TERMINATORS == PIN_SET_TERMINATORS
ORDERED_MANDATORY_EVENT_FIELDS ==
    <<EVENT_CODE, SUBMISSION_INDEX, EVENT_NAME, EVENT_DATE, FINAL_RESULT_DATE,
      RESULTS_OFFICER, RESULTS_OFFICER_ADDRESS, TREASURER, TREASURER_ADDRESS>>
MANDATORY_EVENT_FIELDS == Range(ORDERED_MANDATORY_EVENT_FIELDS)
ORDERED_MANDATORY_1_SESSION == <<MINUTES_FOR_GAME>>
ORDERED_MANDATORY_2_SESSION ==
    <<MOVES_FIRST_SESSION, MINUTES_FIRST_SESSION, MINUTES_REST_OF_GAME>>
ORDERED_MANDATORY_MULTI_SESSION ==
    <<MOVES_FIRST_SESSION, MINUTES_FIRST_SESSION,
      MOVES_SECOND_SESSION, MINUTES_SECOND_SESSION>>
ORDERED_MANDATORY_3_SESSION ==
    ORDERED_MANDATORY_MULTI_SESSION \o <<MINUTES_REST_OF_GAME>>
OPTIONAL_EVENT_FIELDS ==
    Range(ORDERED_MANDATORY_1_SESSION) \cup Range(ORDERED_MANDATORY_3_SESSION)
    \cup {ENVIRONMENT, INFORM_GRAND_PRIX, SECONDS_PER_MOVE}
    \cup {ADJUDICATED, INFORM_CHESSMOVES, INFORM_FIDE, INFORM_UNION}
    \cup {RESULTS_DUPLICATED}
MANDATORY_PIN1_FIELDS == {PIN1, SCORE, PIN2}
ALTERNATIVE_NAME_FIELDS == {NAME, SURNAME}
FORENAME_INITIAL_FIELDS == {FORENAME, INITIALS}
TAG_NAMES ==
    {ADJUDICATED, BOARD, CLUB, COLOUR, COLUMN, COMMENT, COMMENT_LIST,
     COMMENT_PIN, ENVIRONMENT, FINISH, FORENAME, GENDER, INITIALS, NAME, PIN,
     PIN1, PIN2, ROUND, SCORE, SURNAME, TITLE, TREASURER, BCF_CODE, BCF_NO,
     CLUB_CODE, CLUB_COUNTY, CLUB_NAME, DATE_OF_BIRTH, ECF_CODE, ECF_NO,
     EVENT_CODE, EVENT_DATE, EVENT_DETAILS, EVENT_NAME, FIDE_NO,
     FINAL_RESULT_DATE, GAME_DATE, INFORM_FIDE, INFORM_CHESSMOVES,
     INFORM_GRAND_PRIX, INFORM_UNION, MATCH_RESULTS, MINUTES_FIRST_SESSION,
     MINUTES_FOR_GAME, MINUTES_REST_OF_GAME, MINUTES_SECOND_SESSION,
     MOVES_FIRST_SESSION, MOVES_SECOND_SESSION, OTHER_RESULTS, PLAYER_LIST,
     RESULTS_DATE, RESULTS_DUPLICATED, RESULTS_OFFICER,
     RESULTS_OFFICER_ADDRESS, SECONDS_PER_MOVE, SECTION_RESULTS,
     SUBMISSION_INDEX, TABLE_START, TABLE_END, TREASURER_ADDRESS, WHITE_ON}
SUFFIX_INCREMENT_NAMES == PART_TAGS \cup SUBPART_TAGS

\* Fields.__init__: self.tag_suffix[key] = 0 for every key
NoSuffixes == [key \in SUFFIX_INCREMENT_NAMES |-> 0]

\* Header with no file open: no field, no context, nothing bound
NoHeader ==
    [record |-> {},
     context |-> [part |-> "unset", record |-> "unset", siblings |-> {}],
     bound |-> {}]

\* Builder.__init__ after self.fields is made, with the locals of
\* parse_dump and parse as they are set before the loops: _fatal_error and
\* fields_message None, most_recent_index "1.0", no tag open, no mark set,
\* nothing inserted in the widget; item is the place of the loop.
NoBuilder ==
    [_fatal_error |-> None, fields_message |-> None, item |-> 0,
     broke |-> FALSE, most_recent_index |-> 1, tags |-> {}, marks_set |-> {},
     marks |-> <<>>, inserted |-> FALSE]

---------------------------------------------------------------------------
(* expectedfields.py: the static table of legal fields per context key *)

ColumnContext == {COLUMN, TABLE_START}
ResultsContext == {PIN1, WHITE_ON, RESULTS_DATE} \cup PIN1_SET_TERMINATORS
PlayerListRepeats == {COMMENT, PIN, PLAYER_LIST} \cup PIN1_SET_TERMINATORS
PlayerListContext == {COMMENT, PIN} \cup PIN1_SET_TERMINATORS

\* the dict expected_fields, with the keys added after its display
expected_fields ==
    (<<EVENT_DETAILS, None>> :>
        ({PLAYER_LIST, FINISH} \cup MANDATORY_EVENT_FIELDS
                               \cup OPTIONAL_EVENT_FIELDS)) @@
    (<<MATCH_RESULTS, None>> :> ResultsContext) @@
    (<<PIN1, MATCH_RESULTS>> :>
        (Range(FIELDS_ALLOWED_IN_MATCH) \cup PIN1_SET_TERMINATORS)) @@
    (<<PIN1, OTHER_RESULTS>> :>
        (Range(FIELDS_ALLOWED_IN_OTHER) \cup PIN1_SET_TERMINATORS)) @@
    (<<PIN1, SECTION_RESULTS>> :>
        (Range(FIELDS_ALLOWED_IN_SECTION) \cup PIN1_SET_TERMINATORS)) @@
    (<<FINISH, None>> :> {}) @@
    (<<COLUMN, PLAYER_LIST>> :> ColumnContext) @@
    (<<TABLE_START, None>> :> {TABLE_VALUE, TABLE_END}) @@
    (<<PLAYER_LIST, None>> :> PlayerListContext) @@
    (<<PIN, PLAYER_LIST>> :>
        (Range(FIELDS_ALLOWED_IN_PLAYERS) \cup PLAYERS_SET_TERMINATORS
         \cup {COLUMN})) @@
    (<<None, None>> :> {EVENT_DETAILS}) @@
    (<<OTHER_RESULTS, None>> :> ResultsContext) @@
    (<<SECTION_RESULTS, None>> :> ResultsContext) @@
    (<<COLUMN, None>> :> ColumnContext) @@
    (<<COLUMN, MATCH_RESULTS>> :> ColumnContext) @@
    (<<COLUMN, OTHER_RESULTS>> :> ColumnContext) @@
    (<<COLUMN, SECTION_RESULTS>> :> ColumnContext) @@
    (<<TABLE_END, MATCH_RESULTS>> :>
        (Range(FIELDS_ALLOWED_IN_MATCH) \cup PIN1_SET_TERMINATORS)) @@
    (<<TABLE_END, OTHER_RESULTS>> :>
        (Range(FIELDS_ALLOWED_IN_OTHER) \cup PIN1_SET_TERMINATORS)) @@
    (<<TABLE_END, SECTION_RESULTS>> :>
        (Range(FIELDS_ALLOWED_IN_SECTION) \cup PIN1_SET_TERMINATORS)) @@
    (<<TABLE_END, PLAYER_LIST>> :> PlayerListContext)

ExpectedKeys == DOMAIN expected_fields

repeatable_fields(key) ==
    IF key = <<EVENT_DETAILS, None>>
    THEN {RESULTS_OFFICER_ADDRESS, TREASURER_ADDRESS}
    ELSE {}

---------------------------------------------------------------------------
(* Bounds of the exploration *)

\* Occurrences of one repeatable address field counted by the model.
MaxRepeat == 2
\* Cells collected by one table.
MaxValues == 2
\* the places of a record's listing whose fields one record of the texts
\* read holds
MaxRecord == 3

(* Program constants *)

NameLimit == 40
ValueLimit == 100

---------------------------------------------------------------------------
(* expectedfields.py: class ExpectedFields and its subclasses.  An object   *)
(* is a record; cls names its class.  The three counters exist in class     *)
(* EventDetails only and stay 0 elsewhere.                                  *)

ExpectedFields(cls, context) ==
    [cls |-> cls,
     context |-> context,
     exp |-> expected_fields[context],
     time_limit_field_count |-> 0,
     results_officer_address_count |-> 0,
     treasurer_address_count |-> 0]

between_table_start_and_table_end(e) == e.cls = "TableStart"

\* discard, were it to leave the name expected
discard_nothing(e, name) == e
discard(e, name) == [e EXCEPT !.exp = @ \ {name}]

\* add, were it to leave the name out and the counters alone
add_nothing(e, name) == e
add(e, name) ==
    LET a == [e EXCEPT !.exp = @ \cup {name}]
    IN  IF e.cls # "EventDetails" THEN a
        ELSE IF name = RESULTS_OFFICER_ADDRESS
             THEN [a EXCEPT !.results_officer_address_count = @ + 1]
        ELSE IF name = TREASURER_ADDRESS
             THEN [a EXCEPT !.treasurer_address_count = @ + 1]
        ELSE a

\* remove_expected_field, were NAME to exclude ECF CODE
remove_name_and_ecf_code(e, name) ==
    [ok |-> name \in e.exp,
     e |-> [e EXCEPT !.exp = IF name = NAME
                             THEN @ \ {NAME, ECF_CODE} ELSE @ \ {name}]]

\* remove_expected_field, were ECF CODE and CLUB CODE to exclude each other
remove_exclusive_field(e, name) ==
    [ok |-> name \in e.exp,
     e |-> [e EXCEPT !.exp = IF name \in {ECF_CODE, CLUB_CODE}
                             THEN @ \ {ECF_CODE, CLUB_CODE} ELSE @ \ {name}]]
remove_expected_field(e, name) ==
    [ok |-> name \in e.exp, e |-> [e EXCEPT !.exp = @ \ {name}]]

remove_minutes_for_game(e, name) ==
    LET r == remove_expected_field(e, name)
        d == [r.e EXCEPT !.exp = @ \ {MINUTES_FIRST_SESSION,
                                       MOVES_FIRST_SESSION,
                                       MINUTES_SECOND_SESSION,
                                       MOVES_SECOND_SESSION,
                                       MINUTES_REST_OF_GAME}]
    IN  IF ~r.ok THEN r
        ELSE [ok |-> TRUE,
              e |-> IF e.cls = "EventDetails"
                    THEN [d EXCEPT !.time_limit_field_count = @ + 2]
                    ELSE d]

remove_minutes_and_moves(e, name) ==
    LET r == remove_expected_field(e, name)
        d == discard(r.e, MINUTES_FOR_GAME)
    IN  IF ~r.ok THEN r
        ELSE [ok |-> TRUE,
              e |-> IF e.cls = "EventDetails"
                    THEN [d EXCEPT !.time_limit_field_count = @ + 1]
                    ELSE d]

remove_minutes_rest_of_game(e, name) ==
    LET r == remove_expected_field(e, name)
        d == discard(r.e, MINUTES_FOR_GAME)
    IN  IF ~r.ok THEN r
        ELSE [ok |-> TRUE,
              e |-> IF e.cls = "EventDetails"
                    THEN [d EXCEPT !.time_limit_field_count = @ + 2]
                    ELSE d]

\* Returns the verdict and the object as the method leaves it.
validate_event_details_field_combinations(e) ==
    IF e.cls # "EventDetails" THEN [ok |-> TRUE, e |-> e]
    ELSE
    LET t == IF e.treasurer_address_count # 0
             THEN remove_expected_field(e, TREASURER_ADDRESS)
             ELSE [ok |-> TRUE, e |-> e]
        o == IF e.results_officer_address_count # 0
             THEN remove_expected_field(t.e, RESULTS_OFFICER_ADDRESS)
             ELSE [ok |-> TRUE, e |-> t.e]
    IN  IF ~t.ok THEN [ok |-> FALSE, e |-> t.e]
        ELSE IF ~o.ok THEN [ok |-> FALSE, e |-> o.e]
        ELSE IF o.e.exp \cap MANDATORY_EVENT_FIELDS # {}
             THEN [ok |-> FALSE, e |-> o.e]
        ELSE IF o.e.time_limit_field_count = 0
                \/ o.e.time_limit_field_count % 2 # 0
             THEN [ok |-> FALSE, e |-> o.e]
        ELSE [ok |-> TRUE, e |-> o.e]

\* Returns None or TAG_ERROR_UNEXPECTED.
\* validate_pin_field_combinations, were its last test made when CLUB CODE
\* was consumed, to ask for CLUB NAME and CLUB COUNTY consumed too
validate_pin_club_code_combinations(e) ==
    IF Cardinality(e.exp \cap ALTERNATIVE_NAME_FIELDS) # 1
    THEN TAG_ERROR_UNEXPECTED
    ELSE IF NAME \notin e.exp
            /\ Cardinality(e.exp \cap FORENAME_INITIAL_FIELDS)
               # Cardinality(FORENAME_INITIAL_FIELDS)
    THEN TAG_ERROR_UNEXPECTED
    ELSE IF ECF_CODE \in e.exp /\ CLUB_CODE \in e.exp
    THEN TAG_ERROR_UNEXPECTED
    ELSE IF CLUB_CODE \notin e.exp
            /\ (CLUB_NAME \in e.exp \/ CLUB_COUNTY \in e.exp)
    THEN TAG_ERROR_UNEXPECTED
    ELSE None

\* validate_pin_field_combinations, were its second test made when SURNAME
\* was consumed, to ask for FORENAME and INITIALS consumed too
validate_pin_surname_combinations(e) ==
    IF Cardinality(e.exp \cap ALTERNATIVE_NAME_FIELDS) # 1
    THEN TAG_ERROR_UNEXPECTED
    ELSE IF NAME \in e.exp /\ e.exp \cap FORENAME_INITIAL_FIELDS # {}
    THEN TAG_ERROR_UNEXPECTED
    ELSE IF ECF_CODE \in e.exp /\ CLUB_CODE \in e.exp
    THEN TAG_ERROR_UNEXPECTED
    ELSE IF CLUB_CODE \in e.exp
            /\ (CLUB_NAME \notin e.exp \/ CLUB_COUNTY \notin e.exp)
    THEN TAG_ERROR_UNEXPECTED
    ELSE None
validate_pin_field_combinations(e) ==
    IF Cardinality(e.exp \cap ALTERNATIVE_NAME_FIELDS) # 1
    THEN TAG_ERROR_UNEXPECTED
    ELSE IF NAME \notin e.exp
            /\ Cardinality(e.exp \cap FORENAME_INITIAL_FIELDS)
               # Cardinality(FORENAME_INITIAL_FIELDS)
    THEN TAG_ERROR_UNEXPECTED
    ELSE IF ECF_CODE \in e.exp /\ CLUB_CODE \in e.exp
    THEN TAG_ERROR_UNEXPECTED
    ELSE IF CLUB_CODE \in e.exp
            /\ (CLUB_NAME \notin e.exp \/ CLUB_COUNTY \notin e.exp)
    THEN TAG_ERROR_UNEXPECTED
    ELSE None

---------------------------------------------------------------------------
(* table.py: class Table.  A value blob of the verbatim form, the cells of  *)
(* one row joined by '#', is kept as the sequence of its cells.             *)

fields_allowed_in_table(table_type) ==
    CASE table_type = OTHER_RESULTS -> Range(FIELDS_ALLOWED_IN_OTHER)
      [] table_type = MATCH_RESULTS -> Range(FIELDS_ALLOWED_IN_MATCH)
      [] table_type = SECTION_RESULTS -> Range(FIELDS_ALLOWED_IN_SECTION)
      [] table_type = PLAYER_LIST -> Range(FIELDS_ALLOWED_IN_PLAYERS)

field_name_as_value_to_name(replaced_name, name) ==
    IF replaced_name = PIN1 /\ name = COMMENT THEN COMMENT_PIN
    ELSE IF replaced_name = PIN /\ name = COMMENT THEN COMMENT_LIST
    ELSE name

\* self._table is None
NoTable ==
    [live |-> FALSE, replaced_name |-> None, table_type |-> None,
     allowed_fields |-> {}, column_names |-> <<>>, values |-> <<>>,
     broken_column_definition |-> FALSE]

Table(replaced_name, variant_name) ==
    [live |-> TRUE, replaced_name |-> replaced_name,
     table_type |-> variant_name,
     allowed_fields |-> fields_allowed_in_table(variant_name),
     column_names |-> <<>>, values |-> <<>>,
     broken_column_definition |-> FALSE]

set_column_definition_is_broken(t) ==
    [t EXCEPT !.broken_column_definition = TRUE]

add_column_name(t, name) ==
    IF name \in t.allowed_fields
    THEN [ok |-> TRUE,
          t |-> [t EXCEPT !.allowed_fields = @ \ {name},
                          !.column_names = Append(@, name)]]
    ELSE [ok |-> FALSE, t |-> t]

add_value(t, value) == [t EXCEPT !.values = Append(@, value)]

get_key_for_context_at_end_table(t) == <<t.replaced_name, t.table_type>>

\* Entries are <<name, value>>; value <<>> is None.
RECURSIVE Rows(_, _, _)
Rows(values, n, fieldset) ==
    IF values = <<>>
    THEN IF fieldset = <<>> THEN <<>> ELSE <<fieldset>>
    ELSE LET fs == Append(fieldset, Head(values))
         IN  IF Len(fs) < n
             THEN Rows(Tail(values), n, fs)
             ELSE <<fs>> \o Rows(Tail(values), n, <<>>)

\* get_table_fields without the line of the values left over after the
\* last whole row
get_whole_rows(t) ==
    LET cols == [i \in DOMAIN t.column_names |-> <<COLUMN, <<t.column_names[i]>> >>]
        whole(row) == Len(row) >= Len(t.column_names)
        rows == SelectSeq(Rows(t.values, Len(t.column_names), <<>>), whole)
    IN  cols \o
        (IF t.values = <<>> THEN <<>>
         ELSE <<  <<TABLE_START, <<>> >>  >>
              \o [i \in DOMAIN rows |-> <<None, rows[i]>>]
              \o <<  <<TABLE_END, <<>> >>  >>)

get_table_fields(t) ==
    LET cols == [i \in DOMAIN t.column_names |-> <<COLUMN, <<t.column_names[i]>> >>]
        rows == Rows(t.values, Len(t.column_names), <<>>)
    IN  cols \o
        (IF t.values = <<>> THEN <<>>
         ELSE <<  <<TABLE_START, <<>> >>  >>
              \o [i \in DOMAIN rows |-> <<None, rows[i]>>]
              \o <<  <<TABLE_END, <<>> >>  >>)

Index(s, x) == CHOOSE i \in DOMAIN s : s[i] = x /\ \A j \in 1..(i - 1) : s[j] # x

\* column_names with the replaced name moved to the front
MoveToFront(s, x) ==
    LET i == Index(s, x)
    IN  <<x>> \o SubSeq(s, 1, i - 1) \o SubSeq(s, i + 1, Len(s))

\* The <name=value> pairs of one row: cell k goes to the k-th name of the
\* reordered column_names.
RowPairs(t, cols, cells) ==
    [k \in DOMAIN cols |->
        <<IF k = 1 THEN t.replaced_name
          ELSE field_name_as_value_to_name(t.replaced_name, cols[k]),
          <<cells[k]>> >>]

RECURSIVE Flatten(_)
Flatten(ss) == IF ss = <<>> THEN <<>> ELSE Head(ss) \o Flatten(Tail(ss))

\* Returns whether the method raises (column_names.index of a missing
\* name), the pairs, and the table with column_names as the method leaves it.
translate_table_to_name_value_pairs(t) ==
    IF t.broken_column_definition
       \/ Len(t.values) % Len(t.column_names) # 0
    THEN [raises |-> FALSE, fields |-> get_table_fields(t), t |-> t]
    ELSE IF t.replaced_name \notin Range(t.column_names)
    THEN [raises |-> TRUE, fields |-> <<>>, t |-> t]
    ELSE LET cols == MoveToFront(t.column_names, t.replaced_name)
             rows == Rows(t.values, Len(cols), <<>>)
         IN  [raises |-> FALSE,
              fields |-> Flatten([i \in DOMAIN rows |-> RowPairs(t, cols, rows[i])]),
              t |-> [t EXCEPT !.column_names = cols]]

---------------------------------------------------------------------------
(* The text.  field_re cuts the text into matches; one match is a record:   *)
(*   name  - the part before '=', written without whitespace in upper case  *)
(*   nlen  - its length                                                     *)
(*   value - the part after '=', vlen its length; vlen = -1: there is no '='*)

Match(name, nlen, value, vlen) ==
    [name |-> name, nlen |-> nlen, value |-> value, vlen |-> vlen]

NoMatch == Match(None, 0, "", -1)

\* '#<part name>#'
PartMatches ==
    {Match(n, Len(n), "", -1) :
        n \in {"EVENTDETAILS", "PLAYERLIST", "MATCHRESULTS", "OTHERRESULTS",
               "SECTIONRESULTS", FINISH}}

\* '#<name>=<value>#' of the EVENT DETAILS part
EventMatches ==
    {Match(n, Len(n), "v", 1) :
        n \in MANDATORY_EVENT_FIELDS
              \cup Range(ORDERED_MANDATORY_1_SESSION)
              \cup Range(ORDERED_MANDATORY_3_SESSION) \cup {ENVIRONMENT}}

\* '#<name>=<value>#' of a player record
PlayerMatches ==
    {Match(n, Len(n), "v", 1) :
        n \in {PIN, ECF_CODE, BCF_CODE, ECF_NO, BCF_NO, CLUB, CLUB_NAME,
               CLUB_CODE, CLUB_COUNTY, NAME, SURNAME, FORENAME, INITIALS,
               COMMENT}}

\* '#<name>=<value>#' of a result record
ResultMatches ==
    {Match(n, Len(n), "v", 1) :
        n \in {"PIN1", "PIN2", SCORE, BOARD, ROUND, WHITE_ON}}

\* the table fields; '#COLUMN#' has no value
TableMatches ==
    {Match(COLUMN, 6, v, Len(v)) : v \in {"PIN", "PIN1", "NAME", "SCORE", "FOO"}}
    \cup {Match(COLUMN, 6, "", -1),
          Match(TABLE_START, 10, "", -1), Match(TABLE_END, 8, "", -1)}

\* '##', names no dict knows, and values longer than the limit
OtherMatches ==
    {Match("", 0, "", -1),
     Match("FOO", 3, "v", 1), Match("FOO", 3, "long", ValueLimit + 1),
     Match("LONGFOO", NameLimit + 1, "v", 1),
     Match(EVENT_NAME, Len(EVENT_NAME), "long", ValueLimit + 1),
     Match(NAME, Len(NAME), "long", ValueLimit + 1)}

NormalMatches ==
    PartMatches \cup EventMatches \cup PlayerMatches \cup ResultMatches
    \cup TableMatches \cup OtherMatches

\* What the texts read have between TABLE START and TABLE END: cells that
\* are empty or hold one word, and TABLE END.
CellMatches ==
    {Match("", 0, "", -1), Match("FOO", 3, "", -1), Match(TABLE_END, 8, "", -1)}

\* What the texts read have after an accepted COLUMN, until TABLE START: the
\* table fields, '##', a player field, and names no dict knows.
ColumnMatches ==
    TableMatches
    \cup {Match("", 0, "", -1), Match(NAME, Len(NAME), "v", 1),
          Match("FOO", 3, "v", 1), Match("FOO", 3, "long", ValueLimit + 1),
          Match("LONGFOO", NameLimit + 1, "v", 1)}

\* '#<name>=<value>#' written with a name that takes no value
ValuedMatches ==
    {Match(n, Len(n), "v", 1) :
        n \in {"EVENTDETAILS", "PLAYERLIST", FINISH, INFORM_FIDE,
               INFORM_CHESSMOVES, INFORM_GRAND_PRIX, INFORM_UNION,
               RESULTS_DUPLICATED, TABLE_START, TABLE_END}}

Matches == NormalMatches \cup CellMatches \cup ColumnMatches \cup ValuedMatches

\* What the texts read have after a leading text or first field that was
\* too long.
AfterMessageMatches ==
    {Match("EVENTDETAILS", 12, "", -1), Match(FINISH, 6, "", -1),
     Match("FOO", 3, "v", 1), Match("FOO", 3, "long", ValueLimit + 1)}

\* The text before the first '#': none, short, or longer than the name limit.
LeadingText ==
    {NoMatch, Match("TEXT", 4, "", -1), Match("LONGTEXT", NameLimit + 1, "", -1)}

\* The alias pair a tag belongs to, named by its ECF member.
alias(t) ==
    CASE t \in {BCF_CODE, ECF_CODE} -> ECF_CODE
      [] t \in {BCF_NO, ECF_NO} -> ECF_NO
      [] t \in {CLUB, CLUB_NAME} -> CLUB_NAME
      [] OTHER -> None

\* The texts read list the fields of a part or record in the order in which
\* constants.py lists them, an alias standing at the place of its pair:
\* a field still expected is read only when no field listed after it has
\* been read in the live context; in EVENT DETAILS only when the mandatory
\* fields listed before it, the repeatable addresses apart, have been; in a
\* record only while fewer than MaxRecord places of the listing have been
\* read.  PIN and PIN1, which start the next record, and fields no longer
\* expected are read anywhere.
Addresses == {RESULTS_OFFICER_ADDRESS, TREASURER_ADDRESS}

Listing(context) ==
    CASE context = <<EVENT_DETAILS, None>> ->
            ORDERED_MANDATORY_EVENT_FIELDS \o ORDERED_MANDATORY_1_SESSION
            \o ORDERED_MANDATORY_3_SESSION \o <<ENVIRONMENT>>
      [] context = <<PIN, PLAYER_LIST>> -> FIELDS_ALLOWED_IN_PLAYERS
      [] context = <<PIN1, MATCH_RESULTS>> -> FIELDS_ALLOWED_IN_MATCH
      [] context = <<PIN1, OTHER_RESULTS>> -> FIELDS_ALLOWED_IN_OTHER
      [] context = <<PIN1, SECTION_RESULTS>> -> FIELDS_ALLOWED_IN_SECTION
      [] OTHER -> <<>>

Place(listing, n) ==
    LET a == IF alias(n) = None THEN n ELSE alias(n)
    IN  IF a \in Range(listing)
        THEN CHOOSE i \in DOMAIN listing : listing[i] = a
        ELSE 0

InOrder(t, e) ==
    (t \in e.exp /\ t \notin SUBPART_TAGS) =>
    \E listing \in {Listing(e.context)} :
    \E p \in {Place(listing, t)} :
    \E read \in {{Place(listing, listing[i]) :
                    i \in {j \in DOMAIN listing : listing[j] \notin e.exp}}} :
        p > 0 =>
        /\ \A q \in read : q <= p
        /\ IF e.context = <<EVENT_DETAILS, None>>
           THEN \A i \in 1..(p - 1) :
                    listing[i] \in MANDATORY_EVENT_FIELDS \ Addresses
                    => listing[i] \notin e.exp
           ELSE Cardinality(read \cup {Place(listing, a) : a \in aliased}
                            \cup {p}) <= MaxRecord

\* A field of a part, record or table that the texts read have where the
\* live context never expects it: one field of each kind.
Strays ==
    {Match(EVENT_NAME, Len(EVENT_NAME), "v", 1), Match(NAME, Len(NAME), "v", 1),
     Match(SCORE, Len(SCORE), "v", 1), Match(COLUMN, 6, "PIN", 3),
     Match(TABLE_START, 10, "", -1), Match(TABLE_END, 8, "", -1)}

Strayable ==
    {m.name : m \in EventMatches \cup PlayerMatches \cup ResultMatches
                    \cup TableMatches}

\* What the texts read have while the loop uses dict sw and the live
\* context is of class cls.
Family(sw, cls) ==
    IF cls = "TableStart" THEN CellMatches
    ELSE IF sw = "_switch_columns" THEN ColumnMatches
    ELSE NormalMatches

\* The texts read: which match can follow in the state.  '##' outside a
\* table stands where nothing of the live context has been read.
FreeReads(m, t) ==
    /\ m \in Family(IF pc = "first" THEN "_switch" ELSE switch, ef.cls)
    /\ fields_message => m \in AfterMessageMatches
    /\ (/\ m.name \in Strayable
        /\ t \notin SUBPART_TAGS
        /\ t \notin expected_fields[ef.context])
       => m \in Strays
    /\ (m.name = "" /\ (pc = "first" \/ switch = "_switch"))
       => ef.exp = expected_fields[ef.context]
    /\ InOrder(t, ef)

\* A text is any text of the kind above, or one given match by match.
AnyText == [any |-> TRUE, rest |-> <<>>]
Given(matches) == [any |-> FALSE, rest |-> matches]

\* the text after its next match was read
After(txt) == IF txt.any \/ txt.rest = <<>> THEN txt ELSE Given(Tail(txt.rest))

\* Match m, of tag t, is the next of the text.
Reads(m, t) ==
    IF text.any THEN FreeReads(m, t)
    ELSE text.rest # <<>> /\ m = Head(text.rest)

---------------------------------------------------------------------------
(* parser.py: module dicts and the pure parts of class Parser *)

no_whitespace_name_to_short_tag_name ==
    ("EVENTDETAILS" :> EVENT_DETAILS) @@ ("MATCHRESULTS" :> MATCH_RESULTS) @@
    ("OTHERRESULTS" :> OTHER_RESULTS) @@ ("PLAYERLIST" :> PLAYER_LIST) @@
    ("SECTIONRESULTS" :> SECTION_RESULTS) @@ ("PIN1" :> PIN1) @@
    ("PIN2" :> PIN2)

\* The entries for the values the text gives to COLUMN.
column_name_to_short_tag_name == ("PIN1" :> PIN1) @@ ("PIN2" :> PIN2)

\* dict.get(key, default)
Get(dict, key, default) ==
    IF key \in DOMAIN dict THEN dict[key] ELSE default

\* part is the widget's latest field name range tagged with a name of
\* SUFFIX_INCREMENT_NAMES, None if there is none.
_pick_comment_tag(t, part) ==
    LET allparts == SUFFIX_INCREMENT_NAMES
        playerlistparts == allparts \ {PLAYER_LIST, PIN}
        tags == {part} \cap playerlistparts
    IN  IF t # COMMENT THEN t
        ELSE IF part = None THEN t
        ELSE IF tags = {} \/ Cardinality(tags) # 1 THEN t
        ELSE IF PIN \in tags THEN COMMENT_PIN
        ELSE IF PLAYER_LIST \in tags THEN COMMENT_LIST
        ELSE t

\* <<name, value, tag>> of a match; value <<>> is None.
_split_match(m, e, part) ==
    LET cell == m.vlen = -1 /\ between_table_start_and_table_end(e)
                /\ m.name # TABLE_END
        name == IF cell THEN TABLE_VALUE ELSE m.name
        value == IF cell THEN <<m.name>>
                 ELSE IF m.vlen = -1 THEN <<>> ELSE <<m.value>>
    IN  [name |-> name, value |-> value,
         tag |-> Get(no_whitespace_name_to_short_tag_name, name,
                     _pick_comment_tag(name, part))]

\* the name of the match alone
name_of_match(m) == m.name

\* the text of the whole match, which add_value takes
MatchText(m) == IF m.vlen = -1 THEN m.name ELSE m.name \o "=" \o m.value

\* self._switch as __init__ builds it; the entry for PIN1 is the one the
\* *_results handlers replace.
_switch ==
    (TABLE_VALUE :> "_ignore_field") @@
    (ADJUDICATED :> "_remove_field") @@
    (BCF_CODE :> "_remove_ecf_code_and_aliases") @@
    (BCF_NO :> "_remove_ecf_no_and_aliases") @@
    (BOARD :> "_remove_field") @@
    (CLUB :> "_remove_club_name_and_aliases") @@
    (CLUB_CODE :> "_remove_field") @@
    (CLUB_COUNTY :> "_remove_field") @@
    (CLUB_NAME :> "_remove_club_name_and_aliases") @@
    (COLOUR :> "_remove_field") @@
    (COLUMN :> "_table_column") @@
    (COMMENT :> "_remove_field") @@
    (COMMENT_LIST :> "_remove_field") @@
    (COMMENT_PIN :> "_remove_field") @@
    (DATE_OF_BIRTH :> "_remove_field") @@
    (ECF_CODE :> "_remove_ecf_code_and_aliases") @@
    (ECF_NO :> "_remove_ecf_no_and_aliases") @@
    (ENVIRONMENT :> "_remove_field") @@
    (EVENT_CODE :> "_remove_field") @@
    (EVENT_DATE :> "_remove_field") @@
    (EVENT_DETAILS :> "_event_details") @@
    (EVENT_NAME :> "_remove_field") @@
    (FIDE_NO :> "_remove_field") @@
    (FINAL_RESULT_DATE :> "_remove_field") @@
    (FINISH :> "_finish") @@
    (FORENAME :> "_remove_field") @@
    (GAME_DATE :> "_remove_field") @@
    (GENDER :> "_remove_field") @@
    (INFORM_FIDE :> "_remove_field") @@
    (INFORM_CHESSMOVES :> "_remove_field") @@
    (INFORM_GRAND_PRIX :> "_remove_field") @@
    (INFORM_UNION :> "_remove_field") @@
    (INITIALS :> "_remove_field") @@
    (MATCH_RESULTS :> "_match_results") @@
    (MINUTES_FIRST_SESSION :> "_minutes_and_moves") @@
    (MINUTES_FOR_GAME :> "_remove_minutes_for_game") @@
    (MINUTES_REST_OF_GAME :> "_minutes_rest_of_game") @@
    (MINUTES_SECOND_SESSION :> "_minutes_and_moves") @@
    (MOVES_FIRST_SESSION :> "_minutes_and_moves") @@
    (MOVES_SECOND_SESSION :> "_minutes_and_moves") @@
    (NAME :> "_remove_field") @@
    (OTHER_RESULTS :> "_other_results") @@
    (PIN :> "_pin") @@
    (PIN1 :> "_remove_field") @@
    (PIN2 :> "_remove_field") @@
    (PLAYER_LIST :> "_player_list") @@
    (RESULTS_DATE :> "_remove_field") @@
    (RESULTS_DUPLICATED :> "_remove_field") @@
    (RESULTS_OFFICER :> "_remove_field") @@
    (RESULTS_OFFICER_ADDRESS :> "_results_officer_address") @@
    (ROUND :> "_remove_field") @@
    (SCORE :> "_remove_field") @@
    (SECONDS_PER_MOVE :> "_remove_field") @@
    (SECTION_RESULTS :> "_section_results") @@
    (SUBMISSION_INDEX :> "_remove_field") @@
    (SURNAME :> "_remove_field") @@
    (TABLE_START :> "_table_start") @@
    (TABLE_END :> "_table_end") @@
    (TITLE :> "_remove_field") @@
    (TREASURER :> "_remove_field") @@
    (TREASURER_ADDRESS :> "_treasurer_address") @@
    (WHITE_ON :> "_remove_field")

_switch_columns ==
    (TABLE_VALUE :> "_ignore_field") @@ (COLUMN :> "_table_column") @@
    (TABLE_START :> "_table_start")

_switch_values ==
    (TABLE_VALUE :> "_table_value") @@ (TABLE_END :> "_table_end")

\* switch.get(tag, unknown) for the dict sw, p1 being self._switch[PIN1]
Handler(sw, p1, t) ==
    CASE sw = "_switch_columns" ->
            IF t \in DOMAIN _switch_columns THEN _switch_columns[t]
            ELSE "_add_table_layout"
      [] sw = "_switch_values" ->
            IF t \in DOMAIN _switch_values THEN _switch_values[t]
            ELSE "_table_value"
      [] sw = "_switch" ->
            IF t \notin DOMAIN _switch THEN "_unknown_name"
            ELSE IF t = PIN1 THEN p1
            ELSE _switch[t]

\* What _pick_comment_tag may read from the widget for match m: it reads
\* the widget only for COMMENT, and finds no part or record, one of the
\* player list, or another.
WidgetParts(m) ==
    IF m.name = COMMENT THEN {None, PLAYER_LIST, PIN, EVENT_DETAILS}
    ELSE {None}

\* The matches some state dispatches to handler.
Dispatched(handler) ==
    {m \in Matches :
        \E sw \in {"_switch", "_switch_columns", "_switch_values"},
           p1 \in {"_remove_field", "_pin1_in_match", "_pin1_in_other",
                   "_pin1_in_section"},
           cls \in {"ExpectedFields", "EventDetails", "TableStart"},
           part \in WidgetParts(m) :
            /\ m \in Family(sw, cls) \cup ValuedMatches
            /\ Handler(sw, p1, _split_match(m, [cls |-> cls], part).tag)
               = handler}

_validate_event_details_field_combinations(e) ==
    LET v == validate_event_details_field_combinations(e)
    IN  [status |-> IF v.ok THEN STATUS_OK ELSE TAG_ERROR_UNEXPECTED, e |-> v.e]

_validate_pin1_field(e) ==
    IF e.exp \cap MANDATORY_PIN1_FIELDS # {} THEN TAG_ERROR_UNEXPECTED
    ELSE STATUS_OK

\* The widget's latest field name that names a table type, None if none.
_get_table_type == w_type

\* Parser.is_valid_result_submission_format
is_valid_result_submission_format == error_tag = None

\* Parser.table_error
table_error == error_tag = TAG_ERROR_TABLE_LAYOUT

---------------------------------------------------------------------------
(* fields.py: what the parser's calls put in the widget.  An inserted field *)
(* is [name, value, status]; name None is a row of a table shown verbatim.  *)

Inserted(name, value, st) == [name |-> name, value |-> value, status |-> st]

\* append_table with the status taken from the numbers of values and
\* columns alone
append_table_by_count(t) ==
    LET b == IF Len(t.column_names) = 0
             THEN set_column_definition_is_broken(t) ELSE t
        st == IF Len(b.column_names) = 0
                 \/ Len(b.values) % Len(b.column_names) # 0
              THEN TAG_ERROR_TABLE_LAYOUT ELSE STATUS_OK
        tr == translate_table_to_name_value_pairs(b)
    IN  [raises |-> tr.raises, t |-> tr.t,
         out |-> [i \in DOMAIN tr.fields |->
                    Inserted(tr.fields[i][1], tr.fields[i][2], st)]]

\* Returns whether translate_table_to_name_value_pairs raised, the table as
\* left, and the fields inserted.
append_table(t) ==
    LET b == IF Len(t.column_names) = 0
             THEN set_column_definition_is_broken(t) ELSE t
        st == IF b.broken_column_definition
                 \/ Len(b.values) % Len(b.column_names) # 0
              THEN TAG_ERROR_TABLE_LAYOUT ELSE STATUS_OK
        tr == translate_table_to_name_value_pairs(b)
    IN  [raises |-> tr.raises, t |-> tr.t,
         out |-> [i \in DOMAIN tr.fields |->
                    Inserted(tr.fields[i][1], tr.fields[i][2], st)]]

RECURSIVE Latest(_, _, _)
\* the name of the last field of out whose name is in names, else old
Latest(out, names, old) ==
    IF out = <<>> THEN old
    ELSE IF out[Len(out)].name \in names THEN out[Len(out)].name
    ELSE Latest(SubSeq(out, 1, Len(out) - 1), names, old)

---------------------------------------------------------------------------
(* parser.py: the loop around the handler call.  A handler's outcome is     *)
(*   status - what it returned, or the exception it raised                  *)
(*   ef, table, pin1 - self._expected_fields, self._table and               *)
(*            self._switch[PIN1] as it left them                            *)
(*   fresh  - it replaced self._expected_fields by a new object             *)
(*   checks - the results of the validations it ran                         *)
(*   out    - the fields it inserted in the widget itself                   *)

NotRun == "-"
NoChecks == [event |-> NotRun, pin |-> NotRun, pin1 |-> NotRun]

Outcome(st, e, fresh) ==
    [status |-> st, ef |-> e, table |-> table, pin1 |-> pin1_handler,
     fresh |-> fresh, checks |-> NoChecks, out |-> <<>>]

Exceptions ==
    {"FieldTooLongError", "FieldStatusError", "FirstFieldStatusError",
     "AttributeError", "KeyError", "ValueError"}

\* self._expected_fields.__class__(self._expected_fields.context)
Rebuilt(e) == ExpectedFields(e.cls, e.context)

\* _add_non_ecf_format_first_field and _add_non_ecf_format_field
_add_non_ecf_format_field(first, name, value, st, h) ==
    LET a == IF ~first /\ h.table.live THEN append_table(h.table)
             ELSE [raises |-> FALSE, t |-> h.table, out |-> <<>>]
    IN  IF a.raises
        THEN [raises |-> TRUE, table |-> a.t, ef |-> h.ef, out |-> <<>>]
        ELSE [raises |-> FALSE,
              table |-> IF ~first /\ h.table.live
                        THEN [a.t EXCEPT !.column_names = <<>>] ELSE a.t,
              ef |-> Rebuilt(h.ef),
              out |-> Append(a.out, Inserted(name, value, st))]

\* The body of the loops of _process_first_field_match and
\* _process_matches_after_first_field after the handler returned h0 for
\* match m split as sm.  (\E x \in {e} names the value of e.)
Loop(m, sm, h0) ==
    \E h \in {h0} :
    \E first \in {pc = "first"} :
    \E err \in {h.status \in {TAG_ERROR_UNEXPECTED, TAG_ERROR_UNKNOWN}} :
    \E n \in {IF err
              THEN _add_non_ecf_format_field(
                     first,
                     IF h.status = TAG_ERROR_UNKNOWN THEN sm.name ELSE sm.tag,
                     sm.value, h.status, h)
              ELSE [raises |-> FALSE, table |-> h.table, ef |-> h.ef,
                    out |-> <<>>]} :
    \E st \in {IF h.status \in Exceptions THEN h.status
               ELSE IF h.status \notin
                         (IF first
                          THEN {STATUS_OK, STATUS_IGNORE, TAG_ERROR_UNEXPECTED,
                                TAG_ERROR_UNKNOWN}
                          ELSE {STATUS_OK, STATUS_IGNORE, STATUS_COLUMN,
                                STATUS_TABLE_START, STATUS_TABLE_VALUE,
                                STATUS_TABLE_END, TAG_ERROR_UNEXPECTED,
                                TAG_ERROR_UNKNOWN})
               THEN IF first THEN "FirstFieldStatusError"
                    ELSE "FieldStatusError"
               ELSE h.status} :
    \E out \in {IF st = STATUS_OK THEN <<Inserted(sm.tag, sm.value, st)>>
                ELSE IF st \in Exceptions THEN <<>>
                ELSE IF err THEN n.out
                ELSE h.out} :
        /\ field' = m
        /\ tag' = sm.tag
        /\ status' = st
        /\ checks' = h.checks
        /\ emitted' = out
        /\ pin1_handler' = h.pin1
        /\ pc' = IF st = "FieldTooLongError"
                 THEN IF first THEN "rest" ELSE "aborted"
                 ELSE IF st \in Exceptions \/ (err /\ n.raises) THEN "crashed"
                 ELSE "rest"
        /\ fields_message' = (fields_message \/ st = "FieldTooLongError")
        /\ ef' = IF err /\ ~n.raises THEN n.ef ELSE h.ef
        /\ table' = IF st = STATUS_TABLE_VALUE
                    THEN add_value(h.table, MatchText(m))
                    ELSE IF st = STATUS_TABLE_END THEN NoTable
                    ELSE IF err THEN n.table
                    ELSE h.table
        /\ switch' = CASE st = STATUS_COLUMN -> "_switch_columns"
                       [] st \in {STATUS_TABLE_START, STATUS_TABLE_VALUE}
                            -> "_switch_values"
                       [] st = STATUS_TABLE_END -> "_switch"
                       [] OTHER -> switch
        /\ w_type' = Latest(out, TABLE_TYPES, w_type)
        /\ last_part' = IF st = STATUS_OK /\ sm.tag \in PART_TAGS
                        THEN sm.tag ELSE last_part
        /\ consumed' = IF h.fresh \/ (err /\ ~n.raises) THEN {}
                       ELSE IF st = STATUS_OK THEN consumed \cup {sm.tag}
                       ELSE consumed
        /\ aliased' = IF h.fresh THEN {}
                      ELSE IF alias(sm.tag) = None THEN aliased
                      ELSE IF st = STATUS_OK THEN aliased \cup {alias(sm.tag)}
                      ELSE aliased \ {alias(sm.tag)}
        /\ accepted' = IF text.any THEN accepted
                       ELSE IF h.fresh THEN {}
                       ELSE IF st = STATUS_OK THEN accepted \cup {sm.tag}
                       ELSE accepted
        /\ text' = After(text)
        /\ UNCHANGED <<stop_at, error_tag, tag_suffix, widget, document,
                       builder, header>>

\* The loops' test before the handler call.
Stops(t) == t = stop_at /\ t \in PARSE_STOP_AT_FIELDS

\* The handlers the dicts can return, self._switch[PIN1] apart.
SwitchHandlers ==
    {_switch[t] : t \in DOMAIN _switch \ {PIN1}} \cup {"_unknown_name"}
ColumnsHandlers ==
    {_switch_columns[t] : t \in DOMAIN _switch_columns}
    \cup {"_add_table_layout"}
ValuesHandlers == {_switch_values[t] : t \in DOMAIN _switch_values}

\* The loop is running and its dict can return handler.
Serves(handler) ==
    \/ /\ pc = "first" \/ (pc = "rest" /\ switch = "_switch")
       /\ handler = pin1_handler \/ handler \in SwitchHandlers
    \/ /\ pc = "rest"
       /\ switch = "_switch_columns"
       /\ handler \in ColumnsHandlers
    \/ /\ pc = "rest"
       /\ switch = "_switch_values"
       /\ handler \in ValuesHandlers

\* Match m, its tag resolved with part, is dispatched to handler.
Calls(m, part, handler) ==
    /\ Serves(handler)
    /\ \E t \in {_split_match(m, ef, part).tag} :
        /\ Handler(IF pc = "first" THEN "_switch" ELSE switch, pin1_handler,
                   t) = handler
        /\ Reads(m, t)
        /\ ~Stops(t)

---------------------------------------------------------------------------
(* parser.py: parse() up to the first handler call, and its ends *)

Init ==
    /\ pc = "leading"
    /\ stop_at \in {None, EVENT_DETAILS}
    /\ ef = ExpectedFields("ExpectedFields", <<None, None>>)
    /\ table = NoTable
    /\ switch = "_switch"
    /\ pin1_handler = "_remove_field"
    /\ fields_message = FALSE
    /\ error_tag = None
    /\ tag_suffix = NoSuffixes
    /\ widget = <<>>
    /\ document = <<>>
    /\ text = AnyText
    /\ w_type = None
    /\ field = NoMatch
    /\ tag = None
    /\ status = None
    /\ emitted = <<>>
    /\ checks = NoChecks
    /\ last_part = None
    /\ consumed = {}
    /\ aliased = {}
    /\ accepted = {}
    /\ builder = NoBuilder
    /\ header = NoHeader

\* The text starts with '#', or its leading text goes to _unknown_name and,
\* if that returns, into the widget as a field name.
_process_leading_text ==
    /\ pc = "leading"
    /\ \E m \in LeadingText :
        /\ ~text.any => m = NoMatch
        /\ LET st == IF m = NoMatch THEN None
                     ELSE IF m.nlen > NameLimit THEN "FieldTooLongError"
                     ELSE TAG_ERROR_UNKNOWN
           IN  /\ field' = m
               /\ tag' = None
               /\ status' = st
               /\ emitted' = IF st = TAG_ERROR_UNKNOWN
                             THEN <<Inserted(m.name, <<>>, st)>> ELSE <<>>
               /\ fields_message' = (st = "FieldTooLongError")
    /\ pc' = "first"
    /\ checks' = NoChecks
    /\ UNCHANGED <<stop_at, error_tag, tag_suffix, widget, document, text,
                   ef, table, switch, pin1_handler,
                   w_type,
                   last_part, consumed, aliased, accepted, builder, header>>

\* tag == stop_at and tag in PARSE_STOP_AT_FIELDS: return, or break
StopAt ==
    /\ pc \in {"first", "rest"}
    /\ \E m \in Matches : \E part \in WidgetParts(m) :
        LET sm == _split_match(m, ef, part)
        IN  /\ Stops(sm.tag)
            /\ Reads(m, sm.tag)
            /\ field' = m
            /\ tag' = sm.tag
    /\ pc' = "stopped"
    /\ status' = None
    /\ emitted' = <<>>
    /\ checks' = NoChecks
    /\ UNCHANGED <<stop_at, error_tag, tag_suffix, widget, document, text,
                   ef, table, switch, pin1_handler,
                   fields_message,
                   w_type, last_part, consumed, aliased, accepted, builder, header>>

\* finditer has no further match
EndOfText ==
    /\ pc = "rest"
    /\ text.any \/ text.rest = <<>>
    /\ pc' = "done"
    /\ field' = NoMatch
    /\ tag' = None
    /\ status' = None
    /\ emitted' = <<>>
    /\ checks' = NoChecks
    /\ UNCHANGED <<stop_at, error_tag, tag_suffix, widget, document, text,
                   ef, table, switch, pin1_handler,
                   fields_message,
                   w_type, last_part, consumed, aliased, accepted, builder, header>>

---------------------------------------------------------------------------
(* parser.py: the handlers, each with the loop body that follows its call *)

Unexpected(e) == Outcome(TAG_ERROR_UNEXPECTED, e, FALSE)

_ignore_field ==
    \E m \in Dispatched("_ignore_field") : \E part \in WidgetParts(m) :
        /\ Calls(m, part, "_ignore_field")
        /\ Loop(m, _split_match(m, ef, part),
                Outcome(STATUS_IGNORE, ef, FALSE))

\* unknown whatever the lengths of name and value
unknown_of_any_length(m) == TAG_ERROR_UNKNOWN

\* what _unknown_name returns or raises for match m
unknown_name_status(m) ==
    IF m.vlen # -1 /\ m.vlen > ValueLimit THEN "FieldTooLongError"
    ELSE IF m.nlen > NameLimit THEN "FieldTooLongError"
    ELSE TAG_ERROR_UNKNOWN

_unknown_name ==
    \E m \in Dispatched("_unknown_name") : \E part \in WidgetParts(m) :
        /\ Calls(m, part, "_unknown_name")
        /\ Loop(m, _split_match(m, ef, part),
                Outcome(unknown_name_status(m), ef, FALSE))

_remove_field ==
    \E m \in Dispatched("_remove_field") : \E part \in WidgetParts(m) :
        /\ Calls(m, part, "_remove_field")
        /\ LET sm == _split_match(m, ef, part)
               r == remove_expected_field(ef, sm.tag)
           IN  Loop(m, sm, IF ~r.ok THEN Unexpected(r.e)
                           ELSE Outcome(STATUS_OK, r.e, FALSE))

_results_officer_address ==
    \E m \in Dispatched("_results_officer_address") : \E part \in WidgetParts(m) :
        /\ Calls(m, part, "_results_officer_address")
        /\ ef.results_officer_address_count < MaxRepeat
        /\ LET sm == _split_match(m, ef, part)
               r == remove_expected_field(ef, sm.tag)
           IN  Loop(m, sm, IF ~r.ok THEN Unexpected(r.e)
                           ELSE Outcome(STATUS_OK, add(r.e, sm.tag), FALSE))

_treasurer_address ==
    \E m \in Dispatched("_treasurer_address") : \E part \in WidgetParts(m) :
        /\ Calls(m, part, "_treasurer_address")
        /\ ef.treasurer_address_count < MaxRepeat
        /\ LET sm == _split_match(m, ef, part)
               r == remove_expected_field(ef, sm.tag)
           IN  Loop(m, sm, IF ~r.ok THEN Unexpected(r.e)
                           ELSE Outcome(STATUS_OK, add(r.e, sm.tag), FALSE))

_remove_club_name_and_aliases ==
    \E m \in Dispatched("_remove_club_name_and_aliases") : \E part \in WidgetParts(m) :
        /\ Calls(m, part, "_remove_club_name_and_aliases")
        /\ LET sm == _split_match(m, ef, part)
               r == remove_expected_field(ef, sm.tag)
           IN  Loop(m, sm,
                    IF ~r.ok THEN Unexpected(r.e)
                    ELSE IF sm.tag = CLUB_NAME
                    THEN Outcome(STATUS_OK, discard(r.e, CLUB), FALSE)
                    ELSE Outcome(STATUS_OK, discard(r.e, CLUB_NAME), FALSE))

_remove_ecf_code_and_aliases ==
    \E m \in Dispatched("_remove_ecf_code_and_aliases") : \E part \in WidgetParts(m) :
        /\ Calls(m, part, "_remove_ecf_code_and_aliases")
        /\ LET sm == _split_match(m, ef, part)
               r == remove_expected_field(ef, sm.tag)
           IN  Loop(m, sm,
                    IF ~r.ok THEN Unexpected(r.e)
                    ELSE IF sm.tag = ECF_CODE
                    THEN Outcome(STATUS_OK, discard(r.e, BCF_CODE), FALSE)
                    ELSE Outcome(STATUS_OK, discard(r.e, ECF_CODE), FALSE))

_remove_ecf_no_and_aliases ==
    \E m \in Dispatched("_remove_ecf_no_and_aliases") : \E part \in WidgetParts(m) :
        /\ Calls(m, part, "_remove_ecf_no_and_aliases")
        /\ LET sm == _split_match(m, ef, part)
               r == remove_expected_field(ef, sm.tag)
           IN  Loop(m, sm,
                    IF ~r.ok THEN Unexpected(r.e)
                    ELSE IF sm.tag = ECF_NO
                    THEN Outcome(STATUS_OK, discard(r.e, BCF_NO), FALSE)
                    ELSE Outcome(STATUS_OK, discard(r.e, ECF_NO), FALSE))

_remove_minutes_for_game ==
    \E m \in Dispatched("_remove_minutes_for_game") : \E part \in WidgetParts(m) :
        /\ Calls(m, part, "_remove_minutes_for_game")
        /\ LET sm == _split_match(m, ef, part)
               r == remove_minutes_for_game(ef, sm.tag)
           IN  Loop(m, sm, IF ~r.ok THEN Unexpected(r.e)
                           ELSE Outcome(STATUS_OK, r.e, FALSE))

_minutes_and_moves ==
    \E m \in Dispatched("_minutes_and_moves") : \E part \in WidgetParts(m) :
        /\ Calls(m, part, "_minutes_and_moves")
        /\ LET sm == _split_match(m, ef, part)
               r == remove_minutes_and_moves(ef, sm.tag)
           IN  Loop(m, sm, IF ~r.ok THEN Unexpected(r.e)
                           ELSE Outcome(STATUS_OK, r.e, FALSE))

_minutes_rest_of_game ==
    \E m \in Dispatched("_minutes_rest_of_game") : \E part \in WidgetParts(m) :
        /\ Calls(m, part, "_minutes_rest_of_game")
        /\ LET sm == _split_match(m, ef, part)
               r == remove_minutes_rest_of_game(ef, sm.tag)
           IN  Loop(m, sm, IF ~r.ok THEN Unexpected(r.e)
                           ELSE Outcome(STATUS_OK, r.e, FALSE))

_event_details ==
    \E m \in Dispatched("_event_details") : \E part \in WidgetParts(m) :
        /\ Calls(m, part, "_event_details")
        /\ LET sm == _split_match(m, ef, part)
               r == remove_expected_field(ef, sm.tag)
           IN  Loop(m, sm,
                    IF ~r.ok THEN Unexpected(r.e)
                    ELSE Outcome(STATUS_OK,
                                 ExpectedFields("EventDetails", <<sm.tag, None>>),
                                 TRUE))

_player_list ==
    \E m \in Dispatched("_player_list") : \E part \in WidgetParts(m) :
        /\ Calls(m, part, "_player_list")
        /\ LET sm == _split_match(m, ef, part)
               r == remove_expected_field(ef, sm.tag)
               v == _validate_event_details_field_combinations(r.e)
           IN  Loop(m, sm,
                    IF ~r.ok THEN Unexpected(r.e)
                    ELSE [Outcome(STATUS_OK,
                                  ExpectedFields("ExpectedFields",
                                                 <<sm.tag, None>>),
                                  TRUE)
                          EXCEPT !.checks.event = v.status])

_pin ==
    \E m \in Dispatched("_pin") : \E part \in WidgetParts(m) :
        /\ Calls(m, part, "_pin")
        /\ LET sm == _split_match(m, ef, part)
               r == remove_expected_field(ef, sm.tag)
           IN  Loop(m, sm,
                    IF ~r.ok THEN Unexpected(r.e)
                    ELSE [Outcome(STATUS_OK,
                                  ExpectedFields("ExpectedFields",
                                                 <<sm.tag, PLAYER_LIST>>),
                                  TRUE)
                          EXCEPT !.checks.pin =
                                     validate_pin_field_combinations(r.e)])

\* _match_results, _other_results and _section_results differ in the
\* handler they install for PIN1.
results(sm, r, pin1) ==
    IF ~r.ok THEN Unexpected(r.e)
    ELSE [Outcome(STATUS_OK,
                  ExpectedFields("ExpectedFields", <<sm.tag, None>>), TRUE)
          EXCEPT !.checks.pin = validate_pin_field_combinations(r.e),
                 !.checks.pin1 = _validate_pin1_field(r.e),
                 !.pin1 = pin1]

_match_results ==
    \E m \in Dispatched("_match_results") : \E part \in WidgetParts(m) :
        /\ Calls(m, part, "_match_results")
        /\ LET sm == _split_match(m, ef, part)
           IN  Loop(m, sm, results(sm, remove_expected_field(ef, sm.tag),
                                   "_pin1_in_match"))

_other_results ==
    \E m \in Dispatched("_other_results") : \E part \in WidgetParts(m) :
        /\ Calls(m, part, "_other_results")
        /\ LET sm == _split_match(m, ef, part)
           IN  Loop(m, sm, results(sm, remove_expected_field(ef, sm.tag),
                                   "_pin1_in_other"))

_section_results ==
    \E m \in Dispatched("_section_results") : \E part \in WidgetParts(m) :
        /\ Calls(m, part, "_section_results")
        /\ LET sm == _split_match(m, ef, part)
           IN  Loop(m, sm, results(sm, remove_expected_field(ef, sm.tag),
                                   "_pin1_in_section"))

\* _pin1_in_match, _pin1_in_other and _pin1_in_section differ in the
\* enclosing part of the context they set.
pin1_in(sm, r, part) ==
    IF ~r.ok THEN Unexpected(r.e)
    ELSE [Outcome(STATUS_OK,
                  ExpectedFields("ExpectedFields", <<sm.tag, part>>), TRUE)
          EXCEPT !.checks.pin1 = _validate_pin1_field(r.e)]

_pin1_in_match ==
    \E m \in Dispatched("_pin1_in_match") : \E part \in WidgetParts(m) :
        /\ Calls(m, part, "_pin1_in_match")
        /\ LET sm == _split_match(m, ef, part)
           IN  Loop(m, sm, pin1_in(sm, remove_expected_field(ef, sm.tag),
                                   MATCH_RESULTS))

_pin1_in_other ==
    \E m \in Dispatched("_pin1_in_other") : \E part \in WidgetParts(m) :
        /\ Calls(m, part, "_pin1_in_other")
        /\ LET sm == _split_match(m, ef, part)
           IN  Loop(m, sm, pin1_in(sm, remove_expected_field(ef, sm.tag),
                                   OTHER_RESULTS))

_pin1_in_section ==
    \E m \in Dispatched("_pin1_in_section") : \E part \in WidgetParts(m) :
        /\ Calls(m, part, "_pin1_in_section")
        /\ LET sm == _split_match(m, ef, part)
           IN  Loop(m, sm, pin1_in(sm, remove_expected_field(ef, sm.tag),
                                   SECTION_RESULTS))

_finish ==
    \E m \in Dispatched("_finish") : \E part \in WidgetParts(m) :
        /\ Calls(m, part, "_finish")
        /\ LET sm == _split_match(m, ef, part)
               v == IF PLAYER_LIST \in ef.exp
                    THEN _validate_event_details_field_combinations(ef)
                    ELSE [status |-> NotRun, e |-> ef]
           IN  Loop(m, sm,
                    [Outcome(STATUS_OK,
                             ExpectedFields("ExpectedFields", <<sm.tag, None>>),
                             TRUE)
                     EXCEPT !.checks.event = v.status,
                            !.checks.pin = validate_pin_field_combinations(v.e),
                            !.checks.pin1 = _validate_pin1_field(v.e)])

_table_column ==
    \E m \in Dispatched("_table_column") : \E part \in WidgetParts(m) :
        /\ Calls(m, part, "_table_column")
        /\ LET sm == _split_match(m, ef, part)
               r == remove_expected_field(ef, sm.tag)
               ran == [NoChecks EXCEPT
                          !.pin = validate_pin_field_combinations(r.e),
                          !.pin1 = _validate_pin1_field(r.e)]
               replaced == r.e.exp \cap SUBPART_TAGS
               t == IF table.live THEN table
                    ELSE Table(CHOOSE x \in replaced : TRUE, _get_table_type)
               c == add_column_name(t, Get(column_name_to_short_tag_name,
                                          m.value, m.value))
           IN  Loop(m, sm,
                    IF ~r.ok THEN Unexpected(r.e)
                    ELSE IF ~table.live
                            /\ (\/ Cardinality(replaced) # 1
                                \/ _get_table_type = None)
                    THEN [Unexpected(r.e) EXCEPT !.checks = ran]
                    ELSE IF m.vlen = -1
                    THEN [Outcome("AttributeError", r.e, FALSE)
                          EXCEPT !.checks = ran, !.table = t]
                    ELSE IF ~c.ok
                    THEN [Unexpected(r.e) EXCEPT !.checks = ran, !.table = t]
                    ELSE [Outcome(STATUS_COLUMN,
                                  ExpectedFields("ExpectedFields",
                                                 <<sm.tag, None>>),
                                  TRUE)
                          EXCEPT !.checks = ran, !.table = c.t])

_table_start ==
    \E m \in Dispatched("_table_start") : \E part \in WidgetParts(m) :
        /\ Calls(m, part, "_table_start")
        /\ LET sm == _split_match(m, ef, part)
               r == remove_expected_field(ef, sm.tag)
           IN  Loop(m, sm,
                    IF ~r.ok THEN Unexpected(r.e)
                    ELSE Outcome(STATUS_TABLE_START,
                                 ExpectedFields("TableStart", <<sm.tag, None>>),
                                 TRUE))

_table_value ==
    \E m \in Dispatched("_table_value") : \E part \in WidgetParts(m) :
        /\ Calls(m, part, "_table_value")
        /\ Len(table.values) < MaxValues
        /\ Loop(m, _split_match(m, ef, part),
                Outcome(STATUS_TABLE_VALUE, ef, FALSE))

_table_end ==
    \E m \in Dispatched("_table_end") : \E part \in WidgetParts(m) :
        /\ Calls(m, part, "_table_end")
        /\ LET sm == _split_match(m, ef, part)
               r == remove_expected_field(ef, sm.tag)
               key == get_key_for_context_at_end_table(table)
               a == append_table(table)
           IN  Loop(m, sm,
                    IF ~r.ok THEN Unexpected(r.e)
                    ELSE IF ~table.live
                    THEN Outcome("AttributeError", r.e, FALSE)
                    ELSE IF key \notin ExpectedKeys
                    THEN Outcome("KeyError", r.e, FALSE)
                    ELSE IF a.raises
                    THEN Outcome("ValueError",
                                 ExpectedFields("ExpectedFields", key), TRUE)
                    ELSE [Outcome(STATUS_TABLE_END,
                                  ExpectedFields("ExpectedFields", key), TRUE)
                          EXCEPT !.table = a.t, !.out = a.out])

_add_table_layout ==
    \E m \in Dispatched("_add_table_layout") : \E part \in WidgetParts(m) :
        /\ Calls(m, part, "_add_table_layout")
        /\ LET sm == _split_match(m, ef, part)
               h == [Outcome(IF sm.tag \in TAG_NAMES THEN TAG_ERROR_UNEXPECTED
                             ELSE TAG_ERROR_UNKNOWN, ef, FALSE)
                     EXCEPT !.table = set_column_definition_is_broken(table)]
           IN  Loop(m, sm, h)

---------------------------------------------------------------------------

Next ==
    \/ _process_leading_text
    \/ StopAt
    \/ EndOfText
    \/ _ignore_field
    \/ _unknown_name
    \/ _remove_field
    \/ _results_officer_address
    \/ _treasurer_address
    \/ _remove_club_name_and_aliases
    \/ _remove_ecf_code_and_aliases
    \/ _remove_ecf_no_and_aliases
    \/ _remove_minutes_for_game
    \/ _minutes_and_moves
    \/ _minutes_rest_of_game
    \/ _event_details
    \/ _player_list
    \/ _pin
    \/ _match_results
    \/ _other_results
    \/ _section_results
    \/ _pin1_in_match
    \/ _pin1_in_other
    \/ _pin1_in_section
    \/ _finish
    \/ _table_column
    \/ _table_start
    \/ _table_value
    \/ _table_end
    \/ _add_table_layout

Spec == Init /\ [][Next]_vars

---------------------------------------------------------------------------
(* table.py and fields.py on their own: a Table is built by the calls the   *)
(* parser makes on it, in any number and order, and then handed to          *)
(* Fields.append_table.  table holds the Table, emitted what append_table   *)
(* inserted, status "ValueError" if it raised.                              *)

MaxColumns == 3
MaxCells == 4

\* the names given to add_column_name and the texts given to add_value
TableColumnNames == {PIN, PIN1, NAME, SCORE, COMMENT, "FOO"}
TableCells == {"a", "b", "c"}

TableInit ==
    /\ pc = "table"
    /\ stop_at = None
    /\ ef = ExpectedFields("ExpectedFields", <<None, None>>)
    /\ \E replaced_name \in SUBPART_TAGS :
       \E variant_name \in {PLAYER_LIST, MATCH_RESULTS} :
            table = Table(replaced_name, variant_name)
    /\ switch = "_switch_columns"
    /\ pin1_handler = "_remove_field"
    /\ fields_message = FALSE
    /\ error_tag = None
    /\ tag_suffix = NoSuffixes
    /\ widget = <<>>
    /\ document = <<>>
    /\ text = AnyText
    /\ w_type = None
    /\ field = NoMatch
    /\ tag = None
    /\ status = None
    /\ emitted = <<>>
    /\ checks = NoChecks
    /\ last_part = None
    /\ consumed = {}
    /\ aliased = {}
    /\ accepted = {}
    /\ builder = NoBuilder
    /\ header = NoHeader

TableUnchanged ==
    UNCHANGED <<stop_at, error_tag, tag_suffix, widget, document, text,
                ef, switch, pin1_handler,
                fields_message, w_type,
                field, checks, last_part, consumed, aliased, accepted, builder, header>>

AddColumnName ==
    /\ pc = "table"
    /\ table.values = <<>>
    /\ Len(table.column_names) < MaxColumns
    /\ \E name \in TableColumnNames :
        \E r \in {add_column_name(table, name)} :
            /\ table' = r.t
            /\ tag' = COLUMN
            /\ status' = IF r.ok THEN STATUS_COLUMN
                         ELSE TAG_ERROR_UNEXPECTED
    /\ UNCHANGED <<pc, emitted>>
    /\ TableUnchanged

SetColumnDefinitionIsBroken ==
    /\ pc = "table"
    /\ table.values = <<>>
    /\ ~table.broken_column_definition
    /\ table' = set_column_definition_is_broken(table)
    /\ tag' = None
    /\ status' = TAG_ERROR_TABLE_LAYOUT
    /\ UNCHANGED <<pc, emitted>>
    /\ TableUnchanged

AddValue ==
    /\ pc = "table"
    /\ Len(table.values) < MaxCells
    /\ \E value \in TableCells : table' = add_value(table, value)
    /\ tag' = TABLE_VALUE
    /\ status' = STATUS_TABLE_VALUE
    /\ UNCHANGED <<pc, emitted>>
    /\ TableUnchanged

AppendTable ==
    /\ pc = "table"
    /\ \E a \in {append_table(table)} :
        /\ table' = a.t
        /\ emitted' = a.out
        /\ status' = IF a.raises THEN "ValueError" ELSE STATUS_TABLE_END
        /\ pc' = IF a.raises THEN "crashed" ELSE "appended"
    /\ tag' = TABLE_END
    /\ TableUnchanged

TableNext ==
    \/ AddColumnName
    \/ SetColumnDefinitionIsBroken
    \/ AddValue
    \/ AppendTable

TableSpec == TableInit /\ [][TableNext]_vars

---------------------------------------------------------------------------
(* parse() on the minimal results submission: EVENT DETAILS, the mandatory  *)
(* event fields in one of the orders below, MINUTES FOR GAME, PLAYER LIST,  *)
(* PIN, NAME, ECF CODE and FINISH, and the empty match field_re finds at    *)
(* the end of every text.                                                   *)

Field(n) == Match(n, Len(n), "v", 1)
NameOnly(n) == Match(n, Len(n), "", -1)

Rotated(s, k) == SubSeq(s, k + 1, Len(s)) \o SubSeq(s, 1, k)
Reversed(s) == [i \in DOMAIN s |-> s[Len(s) + 1 - i]]

\* the orders of the mandatory event fields: the order of constants.py and
\* its reverse, started at any field
EventFieldOrders ==
    {Rotated(s, k) :
        s \in {ORDERED_MANDATORY_EVENT_FIELDS,
               Reversed(ORDERED_MANDATORY_EVENT_FIELDS)},
        k \in 0..(Len(ORDERED_MANDATORY_EVENT_FIELDS) - 1)}

MinimalDocuments ==
    {<<NameOnly("EVENTDETAILS")>>
     \o [i \in DOMAIN order |-> Field(order[i])]
     \o <<Field(MINUTES_FOR_GAME), NameOnly("PLAYERLIST"), Field(PIN),
          Field(NAME), Field(ECF_CODE), NameOnly(FINISH), NameOnly("")>> :
        order \in EventFieldOrders}

DocumentInit ==
    /\ pc = "leading"
    /\ stop_at = None
    /\ ef = ExpectedFields("ExpectedFields", <<None, None>>)
    /\ table = NoTable
    /\ switch = "_switch"
    /\ pin1_handler = "_remove_field"
    /\ fields_message = FALSE
    /\ error_tag = None
    /\ tag_suffix = NoSuffixes
    /\ widget = <<>>
    /\ document = <<>>
    /\ text \in {Given(d) : d \in MinimalDocuments}
    /\ w_type = None
    /\ field = NoMatch
    /\ tag = None
    /\ status = None
    /\ emitted = <<>>
    /\ checks = NoChecks
    /\ last_part = None
    /\ consumed = {}
    /\ aliased = {}
    /\ accepted = {}
    /\ builder = NoBuilder
    /\ header = NoHeader

DocumentNext ==
    \/ _process_leading_text
    \/ EndOfText
    \/ _ignore_field
    \/ _remove_field
    \/ _results_officer_address
    \/ _treasurer_address
    \/ _remove_ecf_code_and_aliases
    \/ _remove_minutes_for_game
    \/ _event_details
    \/ _player_list
    \/ _pin
    \/ _finish

DocumentSpec == DocumentInit /\ [][DocumentNext]_vars

---------------------------------------------------------------------------
(* parse() on a results submission whose player list is a table, with      *)
(* '=v' written after every name that takes no value, and with a cell of    *)
(* the form name=value and an empty cell in the table.                      *)

\* the fields a row of the table is written with
ValuedCells ==
    {Field(NAME), Field(PIN), Field("EVENTDETAILS"), Field("FOO"),
     NameOnly(""), NameOnly("FOO"), NameOnly("PLAYERLIST"),
     Match(NAME, Len(NAME), "long", ValueLimit + 1)}

ValuedDocuments ==
    {<<Field("EVENTDETAILS")>>
     \o [i \in DOMAIN order |-> Field(order[i])]
     \o <<Field(INFORM_FIDE), Field(INFORM_CHESSMOVES),
          Field(INFORM_GRAND_PRIX), Field(INFORM_UNION),
          Field(RESULTS_DUPLICATED), Field(MINUTES_FOR_GAME),
          Field("PLAYERLIST"),
          Match(COLUMN, 6, "PIN", 3), Match(COLUMN, 6, "NAME", 4),
          Field(TABLE_START)>>
     \o row
     \o <<Field(TABLE_END), Field(FINISH), NameOnly("")>> :
        order \in EventFieldOrders, row \in [1..2 -> ValuedCells]}

ValuedInit ==
    /\ pc = "leading"
    /\ stop_at = None
    /\ ef = ExpectedFields("ExpectedFields", <<None, None>>)
    /\ table = NoTable
    /\ switch = "_switch"
    /\ pin1_handler = "_remove_field"
    /\ fields_message = FALSE
    /\ error_tag = None
    /\ tag_suffix = NoSuffixes
    /\ widget = <<>>
    /\ document = <<>>
    /\ text \in {Given(d) : d \in ValuedDocuments}
    /\ w_type = None
    /\ field = NoMatch
    /\ tag = None
    /\ status = None
    /\ emitted = <<>>
    /\ checks = NoChecks
    /\ last_part = None
    /\ consumed = {}
    /\ aliased = {}
    /\ accepted = {}
    /\ builder = NoBuilder
    /\ header = NoHeader

ValuedNext ==
    \/ _process_leading_text
    \/ EndOfText
    \/ _ignore_field
    \/ _remove_field
    \/ _results_officer_address
    \/ _treasurer_address
    \/ _remove_minutes_for_game
    \/ _event_details
    \/ _player_list
    \/ _table_column
    \/ _table_start
    \/ _table_value
    \/ _table_end
    \/ _finish

ValuedSpec == ValuedInit /\ [][ValuedNext]_vars

---------------------------------------------------------------------------
(* parse() on a results submission with a recoverable error in the EVENT    *)
(* DETAILS part and one in the PIN record: after MINUTES FOR GAME and the   *)
(* first k mandatory event fields comes a field with a name no dict knows,  *)
(* or the k-th field again, or both; the PIN record has NAME, a field with  *)
(* a name no dict knows, and NAME again.                                    *)

Interruptions(name) ==
    {<<Field("FOO")>>,
     <<Field("FOO"), Field(name)>>,
     <<Field(name)>>,
     <<Field(name), Field(name)>>}

InterruptedAt(order, k) ==
    {<<NameOnly("EVENTDETAILS"), Field(MINUTES_FOR_GAME)>>
     \o [i \in 1..k |-> Field(order[i])]
     \o broken
     \o [i \in 1..(Len(order) - k) |-> Field(order[k + i])]
     \o <<NameOnly("PLAYERLIST"), Field(PIN), Field(NAME), Field("FOO"),
          Field(NAME), Field(ECF_CODE), NameOnly(FINISH), NameOnly("")>> :
        broken \in Interruptions(order[k])}

InterruptedDocuments ==
    UNION {InterruptedAt(order, k) :
              order \in EventFieldOrders,
              k \in 1..Len(ORDERED_MANDATORY_EVENT_FIELDS)}

InterruptedInit ==
    /\ pc = "leading"
    /\ stop_at = None
    /\ ef = ExpectedFields("ExpectedFields", <<None, None>>)
    /\ table = NoTable
    /\ switch = "_switch"
    /\ pin1_handler = "_remove_field"
    /\ fields_message = FALSE
    /\ error_tag = None
    /\ tag_suffix = NoSuffixes
    /\ widget = <<>>
    /\ document = <<>>
    /\ text \in {Given(d) : d \in InterruptedDocuments}
    /\ w_type = None
    /\ field = NoMatch
    /\ tag = None
    /\ status = None
    /\ emitted = <<>>
    /\ checks = NoChecks
    /\ last_part = None
    /\ consumed = {}
    /\ aliased = {}
    /\ accepted = {}
    /\ builder = NoBuilder
    /\ header = NoHeader

InterruptedNext ==
    \/ _process_leading_text
    \/ EndOfText
    \/ _ignore_field
    \/ _unknown_name
    \/ _remove_field
    \/ _results_officer_address
    \/ _treasurer_address
    \/ _remove_ecf_code_and_aliases
    \/ _remove_minutes_for_game
    \/ _event_details
    \/ _player_list
    \/ _pin
    \/ _finish

InterruptedSpec == InterruptedInit /\ [][InterruptedNext]_vars

---------------------------------------------------------------------------
(* Fields on its own: the counters self.tag_suffix and the name ranges of  *)
(* the widget that carry a tag with a numeric suffix, under the inserts of  *)
(* parse() and append_table, the inserts of the editor, the deletions of    *)
(* the editor, and file_open on a text file and on a dump file.  A tag is   *)
(* a key and the decimal digits after it; a tag without digits is a name.   *)

MaxInserts == 3     \* inserts that take a suffix, per Fields object
MaxDump == 2        \* tagon items in a dump file, and the highest suffix

ERROR_TAG_NAMES ==
    {TAG_ERROR_TABLE_LAYOUT, TAG_ERROR_UNEXPECTED, TAG_ERROR_UNKNOWN}

\* str() and int() on the suffix
RECURSIVE str(_)
str(n) == IF n < 10 THEN <<n>> ELSE str(n \div 10) \o <<n % 10>>

RECURSIVE int(_)
int(digits) ==
    IF digits = <<>> THEN 0
    ELSE 10 * int(SubSeq(digits, 1, Len(digits) - 1)) + digits[Len(digits)]

\* name + str(self.tag_suffix[name])
Suffixed(name, n) == [key |-> name, digits |-> str(n)]

\* suffixed_tag_re: ^(<a key of SUFFIX_INCREMENT_NAMES>)([1-9][0-9]*)$
suffixed_tag_re(t) ==
    /\ t.key \in SUFFIX_INCREMENT_NAMES
    /\ t.digits # <<>>
    /\ t.digits[1] \in 1..9

\* self.tag_suffix[name] += 1, and the tag made of the new value
_get_new_part_identity_tags(suffixes, name) ==
    LET n == suffixes[name] + 1
    IN  [tag_suffix |-> [suffixes EXCEPT ![name] = n],
         tags |-> <<Suffixed(name, n)>>]

\* a record tag made without self.tag_suffix[name] += 1
tag_record_without_increment(suffixes, name) ==
    [tag_suffix |-> suffixes, tags |-> <<Suffixed(name, suffixes[name] + 1)>>]

_get_new_record_identity_tags(suffixes, name) ==
    LET n == suffixes[name] + 1
    IN  [tag_suffix |-> [suffixes EXCEPT ![name] = n],
         tags |-> <<Suffixed(name, n)>>]

\* the tags of the context: none with a suffix of the field's own
_get_context_identity_tags(suffixes, name) ==
    [tag_suffix |-> suffixes, tags |-> <<>>]

get_identity_tags_for_new_field(suffixes, name) ==
    IF name \in PART_TAGS THEN _get_new_part_identity_tags(suffixes, name)
    ELSE IF name \in SUBPART_TAGS
    THEN _get_new_record_identity_tags(suffixes, name)
    ELSE _get_context_identity_tags(suffixes, name)

\* The counters after one insert, and the suffixed tag the inserted name
\* range is given for itself.
_insert_name_value(suffixes, name, st) ==
    IF st = STATUS_OK
    THEN IF name \in SUFFIX_INCREMENT_NAMES
         THEN [tag_suffix |-> [suffixes EXCEPT ![name] = @ + 1],
               tags |-> <<Suffixed(name, suffixes[name] + 1)>>]
         ELSE [tag_suffix |-> suffixes, tags |-> <<>>]
    ELSE IF st \in ERROR_TAG_NAMES
    THEN [tag_suffix |-> suffixes, tags |-> <<>>]
    ELSE get_identity_tags_for_new_field(suffixes, name)

\* append_table, and the loop of parse(): insert_name_value for each field
RECURSIVE insert_name_values(_, _)
insert_name_values(suffixes, fs) ==
    IF fs = <<>> THEN [tag_suffix |-> suffixes, tags |-> <<>>]
    ELSE LET one == _insert_name_value(suffixes, Head(fs).name, Head(fs).status)
             more == insert_name_values(one.tag_suffix, Tail(fs))
         IN  [tag_suffix |-> more.tag_suffix, tags |-> one.tags \o more.tags]

note_high_suffix_for_tag(suffixes, t) ==
    IF suffixed_tag_re(t) /\ int(t.digits) > suffixes[t.key]
    THEN [suffixes EXCEPT ![t.key] = int(t.digits)]
    ELSE suffixes

\* Builder.parse: note_high_suffix_for_tag on every tagon of the dump
RECURSIVE note_high_suffixes(_, _)
note_high_suffixes(suffixes, dump) ==
    IF dump = <<>> THEN suffixes
    ELSE note_high_suffixes(note_high_suffix_for_tag(suffixes, Head(dump)),
                            Tail(dump))

\* Fields.__init__(self, value_edge, no_value_tags)
FieldsInitArguments == 2

\* FieldsFromDump.__init__(self, document, *args): super().__init__(*args)
FieldsFromDump(args) ==
    IF Len(args) = FieldsInitArguments
    THEN [raises |-> FALSE, tag_suffix |-> NoSuffixes]
    ELSE [raises |-> TRUE, tag_suffix |-> NoSuffixes]

\* Builder.__init__(self, dump, value_edge):
\* self.fields = fields.FieldsFromDump(dump, value_edge)
Builder == FieldsFromDump(<<"value_edge">>)

\* Parser.__init__(self, text, value_edge, no_value_tags):
\* self.fields = fields.FieldsFromText(text, value_edge, no_value_tags)
FieldsFromText(args) ==
    IF Len(args) = FieldsInitArguments
    THEN [raises |-> FALSE, tag_suffix |-> NoSuffixes]
    ELSE [raises |-> TRUE, tag_suffix |-> NoSuffixes]

Parser == FieldsFromText(<<"value_edge", "no_value_tags">>)

RECURSIVE Inserts(_, _)
Inserts(suffixes, keys) ==
    IF keys = {} THEN 0
    ELSE LET key == CHOOSE k \in keys : TRUE
         IN  suffixes[key] + Inserts(suffixes, keys \ {key})

InsertNames == {EVENT_DETAILS, PLAYER_LIST, PIN, PIN1, NAME}
InsertStatuses == {STATUS_OK, TAG_ERROR_UNEXPECTED}
DumpTags ==
    {[key |-> key, digits |-> <<>>] : key \in {PIN, NAME}}
    \cup {Suffixed(key, n) : key \in {PLAYER_LIST, PIN}, n \in 1..MaxDump}
Dumps == UNION {[1..n -> DumpTags] : n \in 0..MaxDump}

FieldsInit ==
    /\ pc = "editing"
    /\ stop_at = None
    /\ ef = ExpectedFields("ExpectedFields", <<None, None>>)
    /\ table = NoTable
    /\ switch = "_switch"
    /\ pin1_handler = "_remove_field"
    /\ fields_message = FALSE
    /\ error_tag = None
    /\ tag_suffix = NoSuffixes
    /\ widget = <<>>
    /\ document = <<>>
    /\ text = AnyText
    /\ w_type = None
    /\ field = NoMatch
    /\ tag = None
    /\ status = None
    /\ emitted = <<>>
    /\ checks = NoChecks
    /\ last_part = None
    /\ consumed = {}
    /\ aliased = {}
    /\ accepted = {}
    /\ builder = NoBuilder
    /\ header = NoHeader

FieldsUnchanged ==
    UNCHANGED <<stop_at, ef, table, switch, pin1_handler, fields_message,
                error_tag, text, w_type, field, tag, status, emitted, checks,
                last_part, consumed, aliased, accepted, builder, header>>

\* parse() and append_table insert the fields of one step with the status
\* the handler gave them.
ParserInserts ==
    /\ \E n \in 1..2 :
       \E fs \in [1..n -> [name : InsertNames, status : InsertStatuses]] :
        LET out == insert_name_values(tag_suffix, fs)
        IN  /\ Inserts(out.tag_suffix, SUFFIX_INCREMENT_NAMES) <= MaxInserts
            /\ tag_suffix' = out.tag_suffix
            /\ widget' = widget \o out.tags
    /\ pc' = "editing"
    /\ document' = <<>>
    /\ FieldsUnchanged

\* Inserter._insert_field: insert_name_value(widget, name, value, None)
_insert_field ==
    /\ \E name \in InsertNames :
        LET out == _insert_name_value(tag_suffix, name, None)
        IN  /\ Inserts(out.tag_suffix, SUFFIX_INCREMENT_NAMES) <= MaxInserts
            /\ tag_suffix' = out.tag_suffix
            /\ widget' = widget \o out.tags
    /\ pc' = "editing"
    /\ document' = <<>>
    /\ FieldsUnchanged

\* delete_fields takes a range of text and the tags on it out of the widget.
delete_fields ==
    /\ \E keep \in SUBSET DOMAIN widget :
        /\ keep # DOMAIN widget
        /\ widget' = Flatten([i \in DOMAIN widget |->
                                IF i \in keep THEN <<widget[i]>> ELSE <<>>])
    /\ pc' = "editing"
    /\ document' = <<>>
    /\ UNCHANGED tag_suffix
    /\ FieldsUnchanged

\* file_open on a text file: the widget is emptied and parse() runs on a
\* new Parser.
file_open_text ==
    /\ widget # <<>> \/ tag_suffix # NoSuffixes
    /\ widget' = <<>>
    /\ tag_suffix' = Parser.tag_suffix
    /\ pc' = IF Parser.raises THEN "TypeError" ELSE "editing"
    /\ document' = <<>>
    /\ FieldsUnchanged

\* file_open on a dump file: the widget is emptied, a Builder is made of
\* the dump and its parse() puts the text and the tags of the dump in the
\* widget.  self.content is assigned after parse() returns.
file_open_dump ==
    /\ \E dump \in Dumps :
        /\ document' = dump
        /\ IF Builder.raises
           THEN /\ pc' = "TypeError"
                /\ widget' = <<>>
                /\ UNCHANGED tag_suffix
           ELSE /\ pc' = "rebuilt"
                /\ widget' = SelectSeq(dump, suffixed_tag_re)
                /\ tag_suffix' = note_high_suffixes(Builder.tag_suffix, dump)
    /\ FieldsUnchanged

FieldsNext ==
    \/ ParserInserts
    \/ _insert_field
    \/ delete_fields
    \/ file_open_text
    \/ file_open_dump

FieldsSpec == FieldsInit /\ [][FieldsNext]_vars

---------------------------------------------------------------------------
(* builder.py: Builder.parse on the items of a tk Text dump.  An item is    *)
(* its length, its key, its value and its index; index 0 is an index that   *)
(* index_re does not match, 1 and 2 are the indices "1.0" and "2.0".        *)

\* Items of one dump.
MaxItems == 3

DUMP_ITEM_LENGTH == 3
TK_TEXT_DUMP_KEYS == {"text", "mark", "tagon", "tagoff", "image", "window"}
TK_TEXT_DUMP_TAG_KEYS == {"tagon", "tagoff"}
FIELD_NAME_TAG == "name"
NON_RECORD_IDENTITY_TAG_NAMES ==
    TAG_NAMES \cup {"bound", "colorname", "colorvalue", FIELD_NAME_TAG, "value"}
    \cup ERROR_TAG_NAMES

Item(len, key, value, index) ==
    [len |-> len, key |-> key, value |-> value, index |-> index]

DumpItems ==
    {Item(3, "text", "v", 1), Item(3, "text", "v", 2), Item(3, "text", "v", 0),
     Item(2, "text", "v", 1), Item(3, "key", "v", 1),
     Item(3, "mark", "insert", 1), Item(3, "mark", "insert", 2),
     Item(3, "mark", "current", 2), Item(3, "mark", "mark", 1),
     Item(3, "tagon", PIN, 1), Item(3, "tagoff", PIN, 2),
     Item(3, "tagon", "FOO", 1)}

ItemDumps == UNION {[1..n -> DumpItems] : n \in 0..MaxItems}

\* index_re.match(index) is not None
index_re(index) == index # 0

\* tag_re matches value and its group 1 is a name of
\* NON_RECORD_IDENTITY_TAG_NAMES
tag_re(value) == value \in NON_RECORD_IDENTITY_TAG_NAMES

\* Builder.is_valid_result_submission_format: not self._fatal_error
BuilderIsValid(b) == b._fatal_error # "True"

\* fields_message and _fatal_error are set and the loop is left
Fatal(b, message) ==
    [b EXCEPT !.fields_message = message, !._fatal_error = "True",
              !.broke = TRUE]

\* the test 'if key in marks_set' of Builder.parse
mark_is_already_set(key, value, marks_set) == key \in marks_set

BuilderInit ==
    /\ pc = "parse_dump"
    /\ stop_at = EVENT_DETAILS
    /\ ef = ExpectedFields("ExpectedFields", <<None, None>>)
    /\ table = NoTable
    /\ switch = "_switch"
    /\ pin1_handler = "_remove_field"
    /\ fields_message = FALSE
    /\ error_tag = None
    /\ tag_suffix = NoSuffixes
    /\ widget = <<>>
    /\ document \in ItemDumps
    /\ text = AnyText
    /\ w_type = None
    /\ field = NoMatch
    /\ tag = None
    /\ status = None
    /\ emitted = <<>>
    /\ checks = NoChecks
    /\ last_part = None
    /\ consumed = {}
    /\ aliased = {}
    /\ accepted = {}
    /\ builder = NoBuilder
    /\ header = NoHeader

BuilderUnchanged ==
    UNCHANGED <<stop_at, ef, table, switch, pin1_handler, fields_message,
                error_tag, tag_suffix, widget, document, text, w_type,
                field, tag, status, emitted, checks, last_part, consumed,
                aliased, accepted, header>>

\* one turn of the loop of parse_dump; building the message for an item of
\* the wrong length joins the int DUMP_ITEM_LENGTH to strings and raises
\* TypeError before anything is assigned
parse_dump ==
    /\ pc = "parse_dump"
    /\ ~builder.broke
    /\ builder.item < Len(document)
    /\ LET item == document[builder.item + 1]
           b == [builder EXCEPT !.item = @ + 1]
       IN  IF item.len # DUMP_ITEM_LENGTH
           THEN /\ pc' = "TypeError"
                /\ builder' = b
           ELSE /\ pc' = "parse_dump"
                /\ builder' =
                     IF item.key \notin TK_TEXT_DUMP_KEYS
                     THEN Fatal(b, "Key is not expected")
                     ELSE IF ~index_re(item.index)
                     THEN Fatal(b, "Index is not in expected format")
                     ELSE IF b.most_recent_index > item.index
                     THEN Fatal(b, "Index compares less than previous index")
                     ELSE LET named ==
                                IF /\ item.key \in TK_TEXT_DUMP_TAG_KEYS
                                   /\ ~tag_re(item.value)
                                   /\ b._fatal_error = None
                                THEN [b EXCEPT
                                        !.fields_message =
                                            "Field name not expected",
                                        !._fatal_error = "False"]
                                ELSE b
                          IN  [named EXCEPT
                                 !.most_recent_index = item.index,
                                 !.broke = /\ item.key = "text"
                                           /\ item.value = stop_at]
    /\ BuilderUnchanged

\* parse after parse_dump returned: return self.fields on a fatal message,
\* else insert the text in the widget
parse ==
    /\ pc = "parse_dump"
    /\ builder.broke \/ builder.item = Len(document)
    /\ IF builder.fields_message # None /\ builder._fatal_error = "True"
       THEN /\ pc' = "returned"
            /\ UNCHANGED builder
       ELSE /\ pc' = "parse"
            /\ builder' = [builder EXCEPT !.inserted = TRUE, !.item = 0,
                                          !.broke = FALSE]
    /\ BuilderUnchanged

\* one turn of the loop of parse over the items
parse_item ==
    /\ pc = "parse"
    /\ ~builder.broke
    /\ builder.item < Len(document)
    /\ LET item == document[builder.item + 1]
           b == [builder EXCEPT !.item = @ + 1]
       IN  builder' =
             CASE item.key = "tagon" ->
                    IF item.value \in b.tags
                    THEN Fatal(b, "tagon after prior tagon")
                    ELSE [b EXCEPT !.tags = @ \cup {item.value}]
               [] item.key = "tagoff" ->
                    IF item.value \notin b.tags
                    THEN Fatal(b, "tagoff without prior tagon")
                    ELSE [b EXCEPT !.tags = @ \ {item.value}]
               [] item.key = "mark" ->
                    IF mark_is_already_set(item.key, item.value, b.marks_set)
                    THEN Fatal(b, "mark is already set")
                    ELSE [b EXCEPT !.marks_set = @ \cup {item.value},
                                   !.marks = Append(@, item.value)]
               [] OTHER -> b
    /\ pc' = "parse"
    /\ BuilderUnchanged

\* parse after its loop: the marks are set and _verify_field_count, if the
\* configuration asks for it and the count of '#' differs from the count of
\* name tags, sets the message unless _fatal_error is set
parse_returns ==
    /\ pc = "parse"
    /\ builder.broke \/ builder.item = Len(document)
    /\ \E mismatch \in BOOLEAN :
        builder' = IF mismatch /\ builder._fatal_error = None
                   THEN [builder EXCEPT
                           !.fields_message = "Count of '#' is not equal"]
                   ELSE builder
    /\ pc' = "returned"
    /\ BuilderUnchanged

BuilderNext ==
    \/ parse_dump
    \/ parse
    \/ parse_item
    \/ parse_returns

BuilderSpec == BuilderInit /\ [][BuilderNext]_vars

---------------------------------------------------------------------------
(* sequences.py and gui/header.py: the inserts the Header editor offers for *)
(* the EVENT DETAILS record.  A member of an exclusion set is a str or a   *)
(* tuple of str; a binding is named by the first item of its description.   *)

Str(name) == [str |-> name, tuple |-> <<>>]
Tuple(names) == [str |-> "", tuple |-> names]

\* siblings.intersection(sname[-1])
Intersection(siblings, exclude) == {Str(name) : name \in siblings} \cap exclude

_sibtag(name) ==
    [label |-> name, fieldnames |-> <<name>>, exclude |-> {Str(name)}]
_sib_exc(name, exclude_if_present) ==
    [label |-> name, fieldnames |-> <<name>>,
     exclude |-> {Str(name)} \cup exclude_if_present]
_sib_set_exc(name, fieldnames, exclude_if_present) ==
    [label |-> name, fieldnames |-> fieldnames, exclude |-> exclude_if_present]

SIB_ED == _sibtag(EVENT_DETAILS)
INHIBIT_EF ==
    {Str(name) : name \in MANDATORY_EVENT_FIELDS \cup OPTIONAL_EVENT_FIELDS}
    \cup SIB_ED.exclude
M1S ==
    _sib_set_exc("Mandatory 1 session",
                 ORDERED_MANDATORY_EVENT_FIELDS \o ORDERED_MANDATORY_1_SESSION,
                 INHIBIT_EF)
M3S ==
    _sib_set_exc("Mandatory 3 session",
                 ORDERED_MANDATORY_EVENT_FIELDS \o ORDERED_MANDATORY_3_SESSION,
                 INHIBIT_EF)
S_MIF == _sib_exc(MINUTES_FIRST_SESSION, {Str(MINUTES_FOR_GAME)})

\* frozenset((constants.ORDERED_MANDATORY_3_SESSION,)): the set whose one
\* member is the tuple
S_MFG == _sib_exc(MINUTES_FOR_GAME, {Tuple(ORDERED_MANDATORY_3_SESSION)})
S_MRG == _sib_exc(MINUTES_REST_OF_GAME, {Str(MINUTES_FOR_GAME)})
S_MIS == _sib_exc(MINUTES_SECOND_SESSION, {Str(MINUTES_FOR_GAME)})
S_MOF == _sib_exc(MOVES_FIRST_SESSION, {Str(MINUTES_FOR_GAME)})
S_MOS == _sib_exc(MOVES_SECOND_SESSION, {Str(MINUTES_FOR_GAME)})

\* The rows of HEADER_SEQUENCES for the descriptions above: part, record
\* and description; every row has an empty inhibit set, and in the EVENT
\* DETAILS record the field of the context is in the sfields of one of the
\* two rows a description has.
Row(part, record, sname) == [part |-> part, record |-> record, sname |-> sname]

HEADER_SEQUENCES ==
    {Row(None, None, sname) : sname \in {SIB_ED, M1S, M3S}}
    \cup {Row(EVENT_DETAILS, EVENT_DETAILS, sname) :
            sname \in {SIB_ED, M1S, M3S, S_MIF, S_MFG, S_MRG, S_MIS, S_MOF,
                       S_MOS}}

Context(part, record, siblings) ==
    [part |-> part, record |-> record, siblings |-> siblings]

\* Header._set_bindings: the descriptions bound for the context
_set_bindings(context) ==
    {row.sname.label :
        row \in {r \in HEADER_SEQUENCES :
                    /\ Intersection(context.siblings, r.sname.exclude) = {}
                    /\ r.part = context.part
                    /\ r.record = context.record}}

\* The description a bound label stands for.
Described(label) ==
    CHOOSE sname \in {row.sname : row \in HEADER_SEQUENCES} :
        sname.label = label

\* the fields of _NEW_FILE_TEXT after EVENT DETAILS, FINISH apart
NewFileFields ==
    MANDATORY_EVENT_FIELDS
    \cup {MOVES_FIRST_SESSION, MINUTES_FIRST_SESSION, MOVES_SECOND_SESSION,
          MINUTES_SECOND_SESSION, ADJUDICATED}

\* the fields Alt-Delete is used on
Deleted ==
    Range(ORDERED_MANDATORY_1_SESSION) \cup Range(ORDERED_MANDATORY_3_SESSION)
    \cup {ADJUDICATED}

HeaderInit ==
    /\ pc = "editing"
    /\ stop_at = None
    /\ ef = ExpectedFields("ExpectedFields", <<None, None>>)
    /\ table = NoTable
    /\ switch = "_switch"
    /\ pin1_handler = "_remove_field"
    /\ fields_message = FALSE
    /\ error_tag = None
    /\ tag_suffix = NoSuffixes
    /\ widget = <<>>
    /\ document = <<>>
    /\ text = AnyText
    /\ w_type = None
    /\ field = NoMatch
    /\ tag = None
    /\ status = None
    /\ emitted = <<>>
    /\ checks = NoChecks
    /\ last_part = None
    /\ consumed = {}
    /\ aliased = {}
    /\ accepted = {}
    /\ builder = NoBuilder
    /\ header = NoHeader

HeaderUnchanged ==
    UNCHANGED <<pc, stop_at, ef, table, switch, pin1_handler, fields_message,
                error_tag, tag_suffix, widget, document, text, w_type,
                field, tag, status, emitted, checks, last_part, consumed,
                aliased, accepted, builder>>

\* file_new and _bind_events_file_open: the widget gets _NEW_FILE_TEXT and
\* the bindings are set for the context (None, None, None, None, None,
\* frozenset())
file_new ==
    /\ \E context \in {Context(None, None, {})} :
        header' = [record |-> NewFileFields, context |-> context,
                   bound |-> _set_bindings(context)]
    /\ HeaderUnchanged

\* _set_bindings_and_highlight with the insert mark in a field of the EVENT
\* DETAILS record: the siblings are the names of the fields of the record
_set_bindings_and_highlight ==
    /\ header.context.part # "unset"
    /\ \E context \in {Context(EVENT_DETAILS, EVENT_DETAILS, header.record)} :
        header' = [header EXCEPT !.context = context,
                                 !.bound = _set_bindings(context)]
    /\ HeaderUnchanged

\* Header.insert_fields for a bound key pressed in the EVENT DETAILS record:
\* the fields of the description are inserted and the bindings are set for
\* the context at the insert mark
insert_fields ==
    /\ header.context.part = EVENT_DETAILS
    /\ \E label \in header.bound :
       \E record \in {header.record \cup Range(Described(label).fieldnames)} :
       \E context \in {Context(EVENT_DETAILS, EVENT_DETAILS, record)} :
        header' = [record |-> record, context |-> context,
                   bound |-> _set_bindings(context)]
    /\ HeaderUnchanged

\* _command_alt_delete on a field of the record other than EVENT DETAILS:
\* the field is deleted and the bindings are not recalculated
_command_alt_delete ==
    /\ header.context.part = EVENT_DETAILS
    /\ \E name \in header.record \cap Deleted :
        header' = [header EXCEPT !.record = @ \ {name}]
    /\ HeaderUnchanged

HeaderNext ==
    \/ file_new
    \/ _set_bindings_and_highlight
    \/ insert_fields
    \/ _command_alt_delete

HeaderSpec == HeaderInit /\ [][HeaderNext]_vars

---------------------------------------------------------------------------
(* Properties of the pass.  A step of the loops leaves in tag and status   *)
(* the tag of the field it read and what the field was classified as; the  *)
(* unprimed variables of an action formula are the state the field met.    *)

RESULTS_TAGS == {MATCH_RESULTS, OTHER_RESULTS, SECTION_RESULTS}

\* C1: part-starting fields are classified ok only in the grammar's order.
\* EVENT DETAILS is ok only when no part has been classified ok before it,
\* so only as the first part and, no step taking last_part back to None,
\* at most once; PLAYER LIST is ok only while the context of EVENT DETAILS
\* is live and EVENT DETAILS is the part most recently classified ok, so at
\* most once; MATCH RESULTS, OTHER RESULTS and SECTION RESULTS are ok only
\* when PLAYER LIST or, after it, a results part was the part most recently
\* classified ok.
C1_PartOrder ==
    [][status' = STATUS_OK =>
        /\ tag' = EVENT_DETAILS => last_part = None
        /\ tag' = PLAYER_LIST =>
            /\ last_part = EVENT_DETAILS
            /\ ef.context = <<EVENT_DETAILS, None>>
        /\ tag' \in RESULTS_TAGS => last_part \in {PLAYER_LIST} \cup RESULTS_TAGS
      ]_vars

\* A results part classified ok straight after another results part, and
\* the parts before them classified ok in order.
C1_Witness ==
    /\ status = STATUS_OK
    /\ tag = OTHER_RESULTS
    /\ last_part = OTHER_RESULTS
    /\ pin1_handler = "_pin1_in_other"
    /\ w_type = OTHER_RESULTS

\* C2: FINISH terminates the submission.  Once a FINISH field has been
\* classified ok, so that FINISH is the part most recently classified ok,
\* no later field of the pass, another FINISH included, is classified ok.
C2_FinishTerminates ==
    [][last_part = FINISH => status' # STATUS_OK]_vars

\* The loop dispatches through self._switch: the first field, and the later
\* fields outside a table.
NormalMode == pc = "first" \/ (pc = "rest" /\ switch = "_switch")

\* C3: in normal mode the handler of every known, non-empty field kind,
\* FINISH included, starts with remove_expected_field on the live context:
\* a field whose tag is a key of the dispatch table and was not in the
\* expected set of the live context when it was read is classified
\* unexpected.
C3_RemoveExpectedFirst ==
    [][(/\ NormalMode
        /\ pc' \in {"rest", "aborted", "crashed"}
        /\ tag' \in DOMAIN _switch \ {TABLE_VALUE}
        /\ tag' \notin ef.exp)
       => status' = TAG_ERROR_UNEXPECTED]_vars

\* C3 for the kinds other than FINISH, which the handlers do satisfy.
C3_ButFinish ==
    [][(/\ NormalMode
        /\ pc' \in {"rest", "aborted", "crashed"}
        /\ tag' \in DOMAIN _switch \ {TABLE_VALUE, FINISH}
        /\ tag' \notin ef.exp)
       => status' = TAG_ERROR_UNEXPECTED]_vars



\* C4: when a field of the first-field or later-field loop is classified
\* ErrorUnknown or ErrorUnexpected, the pass goes on to the next field and
\* the live context becomes a freshly constructed context of the same class
\* for the same key.
C4_RecoveryContinues ==
    [][(/\ pc \in {"first", "rest"}
        /\ status' \in {TAG_ERROR_UNKNOWN, TAG_ERROR_UNEXPECTED})
       => (pc' = "rest" /\ ef' = Rebuilt(ef))]_vars

\* The same, for every classification but the one that ends the loop.
C4_UnlessInsertionRaises ==
    [][(/\ pc \in {"first", "rest"}
        /\ status' \in {TAG_ERROR_UNKNOWN, TAG_ERROR_UNEXPECTED}
        /\ pc' # "crashed")
       => (pc' = "rest" /\ ef' = Rebuilt(ef))]_vars

\* C5: a step in which an unknown field is found too long (name over
\* NameLimit or value over ValueLimit) ends the parse, whether the text is
\* the leading text, the first field or a later field: no later field is
\* given a status.
C5_TooLongAborts ==
    [][status' = "FieldTooLongError" => pc' = "aborted"]_vars

\* The same for the fields after the first only.
C5_LaterFieldAborts ==
    [][(pc = "rest" /\ status' = "FieldTooLongError") => pc' = "aborted"]_vars

BOUNDARY_TAGS ==
    {PLAYER_LIST, PIN, PIN1, MATCH_RESULTS, OTHER_RESULTS, SECTION_RESULTS,
     FINISH, COLUMN}

\* The validation of the closing context, run by the handler of this step
\* on the rules of that context, found them violated.
ClosingRulesViolated ==
    \/ ef.context = <<EVENT_DETAILS, None>>
       /\ checks'.event = TAG_ERROR_UNEXPECTED
    \/ ef.context = <<PIN, PLAYER_LIST>>
       /\ checks'.pin = TAG_ERROR_UNEXPECTED
    \/ ef.context[1] = PIN1
       /\ checks'.pin1 = TAG_ERROR_UNEXPECTED

\* C6: when a part or record starting field (PLAYER LIST, PIN, PIN1, MATCH,
\* OTHER or SECTION RESULTS, FINISH, COLUMN) closes a context whose
\* combination rules are violated, that field is classified ErrorUnexpected
\* and the pass continues.
C6_BoundaryRejected ==
    [][(/\ NormalMode
        /\ tag' \in BOUNDARY_TAGS
        /\ ClosingRulesViolated)
       => (status' = TAG_ERROR_UNEXPECTED /\ pc' = "rest")]_vars

TIME_LIMIT_FIELDS ==
    Range(ORDERED_MANDATORY_1_SESSION) \cup Range(ORDERED_MANDATORY_3_SESSION)

TimeLimitShapes ==
    {Range(ORDERED_MANDATORY_1_SESSION), Range(ORDERED_MANDATORY_2_SESSION),
     Range(ORDERED_MANDATORY_MULTI_SESSION),
     Range(ORDERED_MANDATORY_3_SESSION)}

\* C7: the validation of EVENT DETAILS that PLAYER LIST or FINISH runs
\* succeeds only if the time limit fields consumed are exactly one of the
\* four shapes; MOVES FIRST SESSION with MINUTES FIRST SESSION alone fails.
C7_TimeLimitShapes ==
    [][(/\ ef.context = <<EVENT_DETAILS, None>>
        /\ tag' \in {PLAYER_LIST, FINISH}
        /\ checks'.event = STATUS_OK)
       => consumed \cap TIME_LIMIT_FIELDS \in TimeLimitShapes]_vars

\* The validation never succeeds while a mandatory field is missing or no
\* time limit field was consumed.
C7_MandatoryAndSomeTimeLimit ==
    [][(/\ ef.context = <<EVENT_DETAILS, None>>
        /\ tag' \in {PLAYER_LIST, FINISH}
        /\ checks'.event = STATUS_OK)
       => /\ consumed \cap TIME_LIMIT_FIELDS # {}
          /\ (MANDATORY_EVENT_FIELDS \ Addresses) \cap ef.exp = {}]_vars

PinRecord == NormalMode /\ ef.context = <<PIN, PLAYER_LIST>>

\* A field ECF CODE or CLUB CODE is taken after the other of the two was
\* classified ok in the same PIN record.
SecondOfEcfCodeAndClubCode ==
    /\ PinRecord
    /\ \/ tag' = CLUB_CODE /\ ECF_CODE \in consumed
       \/ tag' = ECF_CODE /\ CLUB_CODE \in consumed

\* C8 as stated: within one PIN record, when both ECF CODE and CLUB CODE
\* are fed, the second of the two is classified ErrorUnexpected.
C8_SecondUnexpected ==
    [][SecondOfEcfCodeAndClubCode => status' = TAG_ERROR_UNEXPECTED]_vars

\* C8: within one PIN record, when both ECF CODE and CLUB CODE are fed, the
\* second of the two is classified Ok, unless that field itself or its alias
\* (BCF CODE for ECF CODE) was classified ok before in the record, and then
\* it is classified ErrorUnexpected: ECF CODE and CLUB CODE do not exclude
\* each other.
C8_NotExclusive ==
    [][SecondOfEcfCodeAndClubCode =>
         status' = IF \/ tag' \in consumed
                      \/ tag' = ECF_CODE /\ BCF_CODE \in consumed
                   THEN TAG_ERROR_UNEXPECTED ELSE STATUS_OK]_vars

C8_Witness ==
    /\ ef.context = <<PIN, PLAYER_LIST>>
    /\ tag = CLUB_CODE
    /\ status = STATUS_OK
    /\ {ECF_CODE, CLUB_CODE} \subseteq consumed

PinRecordValidated == PinRecord /\ checks'.pin = None

\* C10 as stated: the validation of a PIN record reports an error unless
\* exactly one of NAME and SURNAME was consumed in the record and, when
\* SURNAME was the one consumed, unless both FORENAME and INITIALS were
\* consumed too.
C10_SurnameNeedsForenameInitials ==
    [][PinRecordValidated =>
         /\ Cardinality(consumed \cap ALTERNATIVE_NAME_FIELDS) = 1
         /\ SURNAME \in consumed => FORENAME_INITIAL_FIELDS \subseteq consumed
      ]_vars

\* C10: the validation of a PIN record reports an error unless exactly one
\* of NAME and SURNAME was consumed since the context of the record was
\* made and, when NAME was the one consumed, unless neither FORENAME nor
\* INITIALS was consumed; SURNAME asks for neither of them.
C10_NameExcludesForenameInitials ==
    [][PinRecordValidated =>
         /\ Cardinality(consumed \cap ALTERNATIVE_NAME_FIELDS) = 1
         /\ NAME \in consumed => FORENAME_INITIAL_FIELDS \cap consumed = {}
      ]_vars

C10_Witness ==
    /\ tag = PIN
    /\ status = STATUS_OK
    /\ checks.pin = None
    /\ ef.context = <<PIN, PLAYER_LIST>>
    /\ last_part = PLAYER_LIST

\* The step closes a PIN record and its handler ran the validation of the
\* record.
PinRecordClosed == PinRecord /\ checks'.pin # NotRun

\* C11 as stated: the validation of a PIN record reports an error when CLUB
\* CODE was consumed in the record but CLUB NAME (or its alias CLUB) or
\* CLUB COUNTY was not.
C11_ClubCodeNeedsNameAndCounty ==
    [][(/\ PinRecordClosed
        /\ CLUB_CODE \in consumed
        /\ \/ consumed \cap {CLUB_NAME, CLUB} = {}
           \/ CLUB_COUNTY \notin consumed)
       => checks'.pin = TAG_ERROR_UNEXPECTED]_vars

\* C11: the validation of a PIN record reports an error when CLUB CODE was
\* not consumed since the context of the record was made but CLUB NAME (or
\* its alias CLUB) or CLUB COUNTY was; CLUB CODE consumed asks for neither.
C11_ClubNameAndCountyNeedClubCode ==
    [][(/\ PinRecordClosed
        /\ CLUB_CODE \notin consumed
        /\ consumed \cap {CLUB_NAME, CLUB, CLUB_COUNTY} # {})
       => checks'.pin = TAG_ERROR_UNEXPECTED]_vars

\* a record with ECF CODE, NAME and CLUB NAME, which only the club test of
\* the validation rejects
C11_Witness ==
    /\ ef.context = <<PIN, PLAYER_LIST>>
    /\ tag = CLUB_NAME
    /\ status = STATUS_OK
    /\ consumed = {ECF_CODE, NAME, CLUB_NAME}
    /\ validate_pin_field_combinations(ef) = TAG_ERROR_UNEXPECTED
    /\ validate_pin_field_combinations(add(ef, CLUB_NAME)) = None

EventDetailsPart == NormalMode /\ ef.context = <<EVENT_DETAILS, None>>

\* The repeat counter of address field t in context e.
RepeatCount(e, t) ==
    IF t = TREASURER_ADDRESS THEN e.treasurer_address_count
    ELSE e.results_officer_address_count

\* C12: within EVENT DETAILS every occurrence of TREASURER ADDRESS and of
\* RESULTS OFFICER ADDRESS is classified Ok, the field being expected again
\* after it, and adds one to the repeat counter of that field; the
\* validation at the end of the part fails unless both fields occurred.
C12_AddressesRepeat ==
    [][EventDetailsPart =>
         /\ tag' \in Addresses =>
              /\ status' = STATUS_OK
              /\ tag' \in ef'.exp
              /\ RepeatCount(ef', tag') = RepeatCount(ef, tag') + 1
              /\ \A t \in Addresses \ {tag'} :
                     RepeatCount(ef', t) = RepeatCount(ef, t)
         /\ checks'.event = STATUS_OK => Addresses \subseteq consumed
      ]_vars

\* a second TREASURER ADDRESS was classified ok
C12_Witness ==
    /\ ef.context = <<EVENT_DETAILS, None>>
    /\ tag = TREASURER_ADDRESS
    /\ status = STATUS_OK
    /\ ef.treasurer_address_count = 2
    /\ ef.results_officer_address_count = 1
    /\ Addresses \subseteq ef.exp


---------------------------------------------------------------------------
(* Properties of Table and Fields.append_table, stated of the tables that   *)
(* append_table has returned from.  A table whose translation does not      *)
(* expand it is left as append_table met it.                                *)

Appended == pc = "appended"

\* the number of values is not an exact multiple of the number of columns
NotMultiple(t) ==
    IF Len(t.column_names) = 0 THEN Len(t.values) > 0
    ELSE Len(t.values) % Len(t.column_names) # 0

Multiple(t) == Len(t.column_names) > 0 /\ ~NotMultiple(t)

\* the entries of fields from TABLE START to TABLE END for table t: TABLE
\* START, lines of values that taken together are the values of t in
\* their order, TABLE END
VerbatimValues(t, fields) ==
    /\ Len(fields) >= 3
    /\ fields[1].name = TABLE_START /\ fields[1].value = <<>>
    /\ fields[Len(fields)].name = TABLE_END /\ fields[Len(fields)].value = <<>>
    /\ \A i \in 2..(Len(fields) - 1) : fields[i].name = None
    /\ Flatten([i \in 1..(Len(fields) - 2) |-> fields[i + 1].value]) = t.values

\* C13: a table whose number of values is not an exact multiple of its
\* number of columns is inserted unexpanded: a COLUMN field for each
\* column in the order of declaration, TABLE START, all the values in
\* their order, TABLE END, and every field inserted is tagged
\* TAG_ERROR_TABLE_LAYOUT.
C13_NotMultipleUnexpanded ==
    (Appended /\ NotMultiple(table)) =>
        LET n == Len(table.column_names)
        IN  /\ Len(emitted) > n
            /\ \A i \in 1..n :
                /\ emitted[i].name = COLUMN
                /\ emitted[i].value = <<table.column_names[i]>>
            /\ VerbatimValues(table, SubSeq(emitted, n + 1, Len(emitted)))
            /\ \A i \in DOMAIN emitted :
                emitted[i].status = TAG_ERROR_TABLE_LAYOUT

C13_Witness ==
    /\ Appended
    /\ table.column_names = <<NAME, PIN>>
    /\ table.values = <<"a", "b", "c">>
    /\ ~table.broken_column_definition
    /\ Len(emitted) = 6
    /\ emitted[4].value = <<"a", "b">>
    /\ emitted[5].value = <<"c">>


\* append_table takes a table that is not broken and whose number of
\* values is an exact multiple of its number of columns, and returns
Expands ==
    /\ pc = "table" /\ pc' = "appended"
    /\ ~table.broken_column_definition
    /\ Multiple(table)

\* The pairs of row number r of table t, the k-th value of the row with
\* the k-th declared column: the pair of the replaced name first, then the
\* others in the order of declaration.
DeclaredPairs(t, r) ==
    LET n == Len(t.column_names)
        p == Index(t.column_names, t.replaced_name)
        others == SelectSeq([k \in 1..n |-> k], LAMBDA k : k # p)
        pair(k) == <<field_name_as_value_to_name(t.replaced_name,
                                                  t.column_names[k]),
                     <<t.values[(r - 1) * n + k]>> >>
    IN  <<pair(p)>> \o [i \in DOMAIN others |-> pair(others[i])]

NameValues(fields) == [i \in DOMAIN fields |-> <<fields[i].name, fields[i].value>>]

\* C14: of a table that is not broken and whose number of values is an
\* exact multiple of its number of columns, each group of as many values
\* as there are columns is a row whose k-th value goes with the k-th
\* declared column; what is inserted is, row by row, the pair of the PIN
\* or PIN1 column and then the pairs of the other columns in their order,
\* wherever the PIN or PIN1 column was declared.
C14_RowsPairedWithDeclaredColumns ==
    [][Expands =>
        NameValues(emitted') =
            Flatten([r \in 1..(Len(table.values) \div Len(table.column_names))
                        |-> DeclaredPairs(table, r)])]_vars

\* C14 holds of the tables whose first declared column is the PIN or PIN1
\* column.
C14_ReplacedNameDeclaredFirst ==
    [][(Expands /\ table.column_names[1] = table.replaced_name) =>
        NameValues(emitted') =
            Flatten([r \in 1..(Len(table.values) \div Len(table.column_names))
                        |-> DeclaredPairs(table, r)])]_vars


\* append_table takes a table that is not broken and whose number of
\* values is an exact multiple of its number of columns
TakesMultiple ==
    /\ pc = "table" /\ pc' # "table"
    /\ ~table.broken_column_definition
    /\ Multiple(table)

\* what is inserted is a <name=value> pair for each value, none of them a
\* COLUMN, TABLE START or TABLE END field or a line of values
Expansion(t, fields) ==
    /\ Len(fields) = Len(t.values)
    /\ \A i \in DOMAIN fields :
        /\ fields[i].name \notin {None, COLUMN, TABLE_START, TABLE_END}
        /\ fields[i].value # <<>>
        /\ fields[i].status = STATUS_OK

\* C15: every table that is not broken and whose number of values is an
\* exact multiple of its number of columns, a table without a PIN or PIN1
\* column and a table without values included, is translated to its
\* <name=value> pairs, and the translation does not fail.
C15_MultipleExpands ==
    [][TakesMultiple =>
        /\ pc' = "appended"
        /\ Expansion(table, emitted')]_vars

\* C15 holds of the tables that have the PIN or PIN1 column.
C15_ExpandsWithReplacedName ==
    [][(TakesMultiple /\ table.replaced_name \in Range(table.column_names)) =>
        /\ pc' = "appended"
        /\ Expansion(table, emitted')]_vars

\* A table without the PIN or PIN1 column never comes back from
\* append_table unless it is broken or its values are no exact multiple.
C15_FailsWithoutReplacedName ==
    [][(TakesMultiple /\ table.replaced_name \notin Range(table.column_names)) =>
        /\ pc' = "crashed"
        /\ status' = "ValueError"]_vars


---------------------------------------------------------------------------
(* Properties of the pass while a table is collected. *)

\* The loop dispatches through self._switch_columns: columns are being
\* collected.
ColumnMode == pc = "rest" /\ switch = "_switch_columns"

\* the step read a field and gave it to a handler
Handled == pc' \notin {"stopped", "done"}

\* The fields of self._table among the fields the step inserted: all of
\* them at TABLE END, all but the last, which is the field read, when the
\* field read was classified unexpected or unknown.
TableFields(st, fields) ==
    IF st = STATUS_TABLE_END THEN fields
    ELSE IF st \in {TAG_ERROR_UNEXPECTED, TAG_ERROR_UNKNOWN} /\ fields # <<>>
    THEN SubSeq(fields, 1, Len(fields) - 1)
    ELSE <<>>

FirstColumn == NormalMode /\ status' = STATUS_COLUMN

\* self._table is a Table made for the table type and the record expected
\* when the COLUMN field was read, holding that one column and nothing else
NewAccumulator ==
    /\ table'.live
    /\ table'.table_type = w_type
    /\ table'.replaced_name \in ef.exp
    /\ ~table'.broken_column_definition
    /\ Len(table'.column_names) = 1
    /\ table'.allowed_fields
         = fields_allowed_in_table(table'.table_type) \ Range(table'.column_names)
    /\ table'.values = <<>>

\* C17: the table accumulator is created at the first COLUMN field of a
\* table and destroyed at the table's TABLE END: outside a table none is
\* live, and the accumulator of a table carries nothing (broken flag,
\* columns still allowed, replaced record, table type) over from an earlier
\* table or from a COLUMN field that was rejected.
C17_NoCarryOver ==
    [][/\ (NormalMode /\ pc' = "rest") => ~table'.live \/ status' = STATUS_COLUMN
       /\ FirstColumn => NewAccumulator]_vars

\* C17 holds of the first COLUMN field read while self._table is None, and
\* after TABLE END self._table is None.
C17_NewWhenNoneLive ==
    [][/\ (FirstColumn /\ ~table.live) => NewAccumulator
       /\ status' = STATUS_TABLE_END => ~table'.live]_vars


\* a COLUMN field was read outside the values of a table and given to
\* _table_column
ColumnRead ==
    /\ pc = "rest" /\ switch # "_switch_values"
    /\ Handled /\ tag' = COLUMN

\* the field kind the value of the COLUMN field names
ColumnNamed(m) == Get(column_name_to_short_tag_name, m.value, m.value)

\* the columns declared for table t so far
Declared(t) ==
    IF t.live THEN fields_allowed_in_table(t.table_type) \ t.allowed_fields
    ELSE {}

\* the step added no column
NotAdded == Len(table'.column_names) <= Len(table.column_names)

\* C18: a COLUMN field is accepted only if its value names a field kind
\* allowed in tables of the current table type and not yet declared as a
\* column of this table; otherwise the column is not added and the field is
\* classified unexpected.
C18_ColumnAccepted ==
    [][ColumnRead =>
        LET allowed == /\ field'.vlen # -1
                       /\ w_type # None
                       /\ ColumnNamed(field') \in fields_allowed_in_table(w_type)
                       /\ ColumnNamed(field') \notin Declared(table)
        IN  /\ status' = STATUS_COLUMN => allowed
            /\ ~allowed => status' = TAG_ERROR_UNEXPECTED /\ NotAdded]_vars

\* C18 holds of the COLUMN fields that have a value, with the columns
\* allowed and declared taken from self._table where there is one.
C18_ColumnAcceptedByAccumulator ==
    [][(ColumnRead /\ field'.vlen # -1) =>
        LET allowed == IF table.live
                       THEN ColumnNamed(field') \in table.allowed_fields
                       ELSE /\ w_type # None
                            /\ ColumnNamed(field') \in fields_allowed_in_table(w_type)
        IN  /\ status' = STATUS_COLUMN => allowed
            /\ ~allowed => status' = TAG_ERROR_UNEXPECTED /\ NotAdded]_vars

\* A COLUMN field without a value that is expected ends the pass with an
\* AttributeError unless no table type or replaced record can be found.
C18_ColumnWithoutValue ==
    [][(ColumnRead /\ field'.vlen = -1) =>
        status' \in {"AttributeError", TAG_ERROR_UNEXPECTED}]_vars


---------------------------------------------------------------------------
(* Properties of the records. *)

\* C19: a PIN field is classified ok only while the part most recently
\* accepted is PLAYER LIST, and a PIN1 field only while it is MATCH
\* RESULTS, OTHER RESULTS or SECTION RESULTS, after error recovery and
\* after the end of a table as well.
C19_PinInItsPart ==
    [][(Handled /\ status' = STATUS_OK) =>
        /\ tag' = PIN => last_part = PLAYER_LIST
        /\ tag' = PIN1 => last_part \in RESULTS_TAGS]_vars


\* C19 holds of the live context in place of the part most recently
\* accepted: PIN is classified ok only in the context of PLAYER LIST or of
\* its records, PIN1 only in the context of a results part or of its
\* records.  The two differ after the TABLE END of a table whose
\* accumulator was made in an earlier part.
C19_PinInItsContext ==
    [][(Handled /\ status' = STATUS_OK) =>
        /\ tag' = PIN =>
            ef.context \in {<<PLAYER_LIST, None>>, <<PIN, PLAYER_LIST>>}
        /\ tag' = PIN1 =>
            \E part \in RESULTS_TAGS :
                ef.context \in {<<part, None>>, <<PIN1, part>>}]_vars


---------------------------------------------------------------------------
(* Properties of the document. *)

\* the pass has read FOO=v in EVENT DETAILS
FooInEventDetails ==
    /\ pc = "rest"
    /\ ef.context = <<EVENT_DETAILS, None>>
    /\ field = Match("FOO", 3, "v", 1)
    /\ status # None

\* C20: the pass over '#EVENT DETAILS#FOO=BAR#FINISH' classifies FOO as
\* unknown and leaves the document not a valid results submission.
C20_UnknownFieldInvalid ==
    FooInEventDetails =>
        /\ status = TAG_ERROR_UNKNOWN
        /\ ~is_valid_result_submission_format

\* FOO=v read in EVENT DETAILS is classified unknown; self.fields.error_tag
\* is None in every state of the pass, its ends included, so the document
\* is always reported a valid results submission and never a table error.
C20_UnknownFieldClassified ==
    /\ FooInEventDetails => status = TAG_ERROR_UNKNOWN
    /\ is_valid_result_submission_format
    /\ ~table_error


\* the last step met a name or value longer than the limit
TooLong == status = "FieldTooLongError"

\* C21: after a pass in which FieldTooLongError was raised the document is
\* not a valid results submission and the diagnostic message is set.
C21_TooLongInvalid ==
    TooLong => fields_message /\ ~is_valid_result_submission_format

\* The message half of C21: the message is set when FieldTooLongError is
\* raised, and stays set to the end of the pass.
C21_TooLongMessage ==
    [][/\ status' = "FieldTooLongError" => fields_message'
       /\ fields_message => fields_message']_vars


\* TABLE END was consumed for a table whose number of values is not an
\* exact multiple of its number of columns
EndsNotMultiple ==
    /\ status' = STATUS_TABLE_END
    /\ table.live
    /\ NotMultiple(table)

\* C22: after a pass with a table whose number of values is not an exact
\* multiple of its number of columns, the parser's table_error is true.
C22_NotMultipleTableError ==
    [][EndsNotMultiple => table_error']_vars

\* The fields of such a table are inserted tagged TAG_ERROR_TABLE_LAYOUT,
\* TABLE START and TABLE END among them.
C22_NotMultipleTagged ==
    [][EndsNotMultiple =>
        /\ \A i \in DOMAIN emitted' :
            emitted'[i].status = TAG_ERROR_TABLE_LAYOUT
        /\ \E i \in DOMAIN emitted' : emitted'[i].name = TABLE_END]_vars


\* C23: the pass over a document made of EVENT DETAILS, every mandatory
\* event field, MINUTES FOR GAME, PLAYER LIST, PIN, NAME, ECF CODE and
\* FINISH, in that order, leaves the document a valid results submission
\* and tags no field as unknown, unexpected or table layout error: every
\* field is classified ok, and the pass reaches the end of the text.
C23_MinimalDocumentValid ==
    /\ is_valid_result_submission_format
    /\ ~fields_message
    /\ pc \in {"leading", "first", "rest", "done"}
    /\ status \in {None, STATUS_OK, STATUS_IGNORE}
    /\ \A i \in DOMAIN emitted : emitted[i].status = STATUS_OK
    /\ (field.name \notin {None, ""} /\ pc # "done") =>
            status = STATUS_OK /\ Len(emitted) = 1

\* the pass has read the whole document
C23_Witness ==
    /\ pc = "done"
    /\ text = Given(<<>>)
    /\ last_part = FINISH
    /\ ef.context = <<FINISH, None>>
    /\ is_valid_result_submission_format


\* _process_leading_text has returned for a text that does not start with
\* '#'
LeadingTextRead == pc = "first" /\ field # NoMatch

ErrorTags == {TAG_ERROR_UNKNOWN, TAG_ERROR_UNEXPECTED, TAG_ERROR_TABLE_LAYOUT}

\* C29: the text before the first '#' is inserted as found, tagged as an
\* error, whatever its length.
C29_LeadingTextPreserved ==
    LeadingTextRead =>
        /\ Len(emitted) = 1
        /\ emitted[1].name = field.name
        /\ emitted[1].status \in ErrorTags

\* C29 holds of the leading texts within the limit on names, which are
\* tagged unknown; a longer one is not inserted and the message is set.
C29_ShortLeadingTextPreserved ==
    LeadingTextRead =>
        IF field.nlen <= NameLimit
        THEN emitted = <<Inserted(field.name, <<>>, TAG_ERROR_UNKNOWN)>>
        ELSE emitted = <<>> /\ fields_message


\* The field read in the step is in the widget, or in self._table to be
\* inserted with the table: a field classified ok, unexpected or unknown
\* is the last one inserted, a column is the last of column_names, a value
\* the last of values.
Kept ==
    /\ status' \in {STATUS_OK, TAG_ERROR_UNEXPECTED, TAG_ERROR_UNKNOWN} =>
        /\ emitted' # <<>>
        /\ emitted'[Len(emitted')].status = status'
        /\ emitted'[Len(emitted')].name \in {tag', field'.name}
    /\ status' = STATUS_COLUMN =>
        /\ table'.column_names # <<>>
        /\ table'.column_names[Len(table'.column_names)] = ColumnNamed(field')
    /\ status' = STATUS_TABLE_VALUE =>
        /\ table'.values # <<>>
        /\ table'.values[Len(table'.values)] = MatchText(field')

\* fields are held in self._table that were not inserted
Pending(t) == t.live /\ (t.column_names # <<>> \/ t.values # <<>>)

PassEnded == pc \notin {"leading", "first", "rest"}

\* C24: every field read that is not empty is in the widget, with its
\* name, value and status, by the end of the pass: it is inserted when
\* read, or kept in the table and inserted with it, and no table is left
\* holding fields when the pass ends, a table that was interrupted or has
\* no TABLE END included.
C24_NoFieldDropped ==
    [][/\ (Handled /\ pc # "leading" /\ field'.name # "") => Kept
       /\ PassEnded' => ~Pending(table')]_vars

\* C24 holds of the steps that raise no exception, up to the end of the
\* pass.
C24_KeptUntilEnd ==
    [][(Handled /\ pc # "leading" /\ field'.name # "" /\ pc' = "rest") => Kept]_vars

\* The fields COLUMN=PIN and COLUMN=NAME are in no widget when the text
\* ends after them.
C24_EndsPending ==
    [][(pc' = "done" /\ Pending(table)) => emitted' = <<>> /\ Pending(table')]_vars


\* a COMMENT field is read next after a field that starts a part or a
\* record and was classified ok, so that this field is the nearest one
\* before it
CommentAfterStart ==
    /\ pc = "rest" /\ switch = "_switch"
    /\ status = STATUS_OK /\ tag \in SUFFIX_INCREMENT_NAMES
    /\ Handled /\ field'.name = COMMENT

\* C25: a COMMENT field gets the tag COMMENT_LIST when the nearest field
\* before it that starts a part or a record is PLAYER LIST, COMMENT_PIN
\* when it is PIN, and COMMENT otherwise.
C25_CommentResolved ==
    [][CommentAfterStart =>
        tag' = CASE tag = PLAYER_LIST -> COMMENT_LIST
                 [] tag = PIN -> COMMENT_PIN
                 [] OTHER -> COMMENT]_vars

\* Whatever starts the part or record, _pick_comment_tag returns COMMENT,
\* and so every COMMENT field read gets the tag COMMENT.
C25_CommentNeverResolved ==
    /\ \A part \in SUFFIX_INCREMENT_NAMES \cup {None} :
        _pick_comment_tag(COMMENT, part) = COMMENT
    /\ field.name = COMMENT => tag = COMMENT


---------------------------------------------------------------------------
(* Properties of the counters of Fields, checked in FieldsSpec.             *)

\* the positions an insert added to the widget
Added == (Len(widget) + 1)..Len(widget')
AddedOf(key) == {i \in Added : widget'[i].key = key}

C26_OneStepPerOccurrence ==
    [][/\ Len(widget') < Len(widget) /\ pc' = "editing" /\ pc = "editing"
            => tag_suffix' = tag_suffix \/ widget' = <<>>
       /\ Len(widget') > Len(widget) =>
            \A key \in SUFFIX_INCREMENT_NAMES :
                /\ tag_suffix'[key] = tag_suffix[key] + Cardinality(AddedOf(key))
                /\ {int(widget'[i].digits) : i \in AddedOf(key)}
                     = (tag_suffix[key] + 1)..tag_suffix'[key]]_vars

\* C26: no suffix in the widget is above the counter of its kind.
C26_CounterAbove ==
    \A i \in DOMAIN widget :
        /\ suffixed_tag_re(widget[i])
        /\ int(widget[i].digits) <= tag_suffix[widget[i].key]

HighestSuffix(dump, key) ==
    LET found == {int(dump[i].digits) :
                    i \in {j \in DOMAIN dump : /\ dump[j].key = key
                                               /\ dump[j].digits # <<>>}}
    IN  IF found = {} THEN 0
        ELSE CHOOSE n \in found : \A m \in found : m <= n

OpenedDump == pc \in {"rebuilt", "TypeError"}

\* C27: after file_open on a dump the counter of each kind is the highest
\* suffix the tags of the kind have in the dump.
C27_CountersFromDump ==
    OpenedDump =>
        \A key \in SUFFIX_INCREMENT_NAMES :
            tag_suffix[key] = HighestSuffix(document, key)

\* C27: Builder's constructor raises TypeError, so file_open on a dump ends
\* with the widget empty and the counters it met; note_high_suffix_for_tag,
\* taken over any dump from counters at zero, gives the highest suffixes.
C27_BuilderRaises ==
    /\ Builder.raises
    /\ pc # "rebuilt"
    /\ pc = "TypeError" => widget = <<>>
    /\ \A dump \in Dumps : \A key \in SUFFIX_INCREMENT_NAMES :
            note_high_suffixes(NoSuffixes, dump)[key] = HighestSuffix(dump, key)


---------------------------------------------------------------------------
(* The round trip of a table through its <name=value> pairs, checked in     *)
(* TableSpec.                                                               *)

\* the column a <name=value> pair of a table came from
ColumnOf(name) == IF name \in {COMMENT_LIST, COMMENT_PIN} THEN COMMENT ELSE name

RECURSIVE AddColumnNames(_, _)
AddColumnNames(t, names) ==
    IF names = <<>> THEN t
    ELSE AddColumnNames(add_column_name(t, Head(names)).t, Tail(names))

RECURSIVE AddValues(_, _)
AddValues(t, values) ==
    IF values = <<>> THEN t
    ELSE AddValues(add_value(t, Head(values)), Tail(values))

ValuesOf(fields) == Flatten([i \in DOMAIN fields |-> fields[i].value])

\* The table of the kind of t whose columns are the names of the first
\* row of fields, in their order, and whose values are the values of fields.
ReDerived(t, fields) ==
    LET n == IF Len(fields) < Len(t.column_names) THEN Len(fields)
             ELSE Len(t.column_names)
        names == [k \in 1..n |-> ColumnOf(fields[k].name)]
    IN  AddValues(AddColumnNames(Table(t.replaced_name, t.table_type), names),
                  ValuesOf(fields))

\* The table re-derived from fields is translated without failure to
\* <name=value> pairs that have the names and the values of fields, in
\* their order.
RoundTrip(t, fields) ==
    LET again == append_table(ReDerived(t, fields))
    IN  /\ ~again.raises
        /\ Expansion(t, again.out)
        /\ ValuesOf(again.out) = ValuesOf(fields)
        /\ [i \in DOMAIN fields |-> fields[i].name]
             = [i \in DOMAIN again.out |-> again.out[i].name]

\* C28: every table that is not broken and whose number of values is an
\* exact multiple of its number of columns is translated to <name=value>
\* pairs, and the table re-derived from the pairs is translated to the same
\* values in the same order.
C28_RoundTrip ==
    [][TakesMultiple =>
        /\ pc' = "appended"
        /\ RoundTrip(table, emitted')]_vars

\* C28 holds of the tables that have the PIN or PIN1 column: the second
\* translation gives the pairs of the first, and the values of both are the
\* values of the table in the order they were read.
C28_RoundTripWithReplacedName ==
    [][(TakesMultiple /\ table.replaced_name \in Range(table.column_names)) =>
        /\ pc' = "appended"
        /\ RoundTrip(table, emitted')
        /\ ValuesOf(emitted') = table.values]_vars


---------------------------------------------------------------------------
(* Properties of the pass on fields over the limits on lengths. *)

OverLimit(m) == m.nlen > NameLimit \/ m.vlen > ValueLimit

\* a step after the first field read a field over a limit
ReadOverLimit == pc = "rest" /\ Handled /\ OverLimit(field')

\* the dict the loop uses has no handler for the tag of the field read, and
\* its default is _unknown_name
ToUnknownName == Handler(switch, pin1_handler, tag') = "_unknown_name"

C30_KnownNameClassified ==
    /\ pc = "rest"
    /\ status = STATUS_OK
    /\ field = Match(EVENT_NAME, Len(EVENT_NAME), "long", ValueLimit + 1)


---------------------------------------------------------------------------
(* Properties of the pass on names that take no value, checked in           *)
(* ValuedSpec.                                                              *)

NameOnlyNames ==
    {"EVENTDETAILS", "PLAYERLIST", FINISH, INFORM_FIDE, INFORM_CHESSMOVES,
     INFORM_GRAND_PRIX, INFORM_UNION, RESULTS_DUPLICATED, TABLE_START,
     TABLE_END}

\* the step read '#<name>=<value>#' with a name that takes no value, where
\* fields are read by name (between TABLE START and TABLE END only TABLE
\* END is)
ReadValuedNameOnly ==
    /\ pc \in {"first", "rest"}
    /\ Handled
    /\ field'.name \in NameOnlyNames
    /\ field'.vlen # -1
    /\ switch = "_switch_values" => field'.name = TABLE_END

TableStatuses ==
    {STATUS_COLUMN, STATUS_TABLE_START, STATUS_TABLE_VALUE, STATUS_TABLE_END}

\* C31: a field with a name that takes no value, written with '=value', is
\* not classified ok, nor column, table start, table value or table end.
C31_ValuedNameOnlyRejected ==
    [][ReadValuedNameOnly => status' \notin {STATUS_OK} \cup TableStatuses]_vars

\* The handlers drop the value: written at the place where the name is
\* expected, TABLE START=v starts the table, TABLE END=v ends and expands
\* it, and the others are classified ok and inserted with their value.
C31_ValueDropped ==
    [][ReadValuedNameOnly =>
        /\ status' = CASE field'.name = TABLE_START -> STATUS_TABLE_START
                       [] field'.name = TABLE_END -> STATUS_TABLE_END
                       [] OTHER -> STATUS_OK
        /\ status' = STATUS_OK =>
                emitted' = <<Inserted(tag', <<"v">>, STATUS_OK)>>]_vars


---------------------------------------------------------------------------
(* C32, C33: what a recoverable error leaves of the part or record *)

\* The step read a field of a text given match by match.
ReadGiven == ~text.any /\ text' # text

\* The step classified ok a field that the part or record already had
\* classified ok.
AcceptedAgain ==
    /\ ReadGiven
    /\ status' = STATUS_OK
    /\ accepted' # {}
    /\ tag' \in accepted

\* C32: within one part's own fieldset or one record, a field kind that is
\* not repeatable (every kind but TREASURER ADDRESS and RESULTS OFFICER
\* ADDRESS in EVENT DETAILS) is classified ok at most once, also when
\* fields classified ErrorUnknown or ErrorUnexpected occur in between.
C32_OkAtMostOnce ==
    [][AcceptedAgain => tag' \in repeatable_fields(ef.context)]_vars

\* What the code does: the kind is classified ok again only if a field
\* classified ErrorUnknown or ErrorUnexpected came after its last
\* acceptance (the context was made anew and the kind is no longer among
\* the consumed ones), and then every kind of the fieldset is.
C32_OkAgainAfterError ==
    [][(AcceptedAgain /\ tag' \notin repeatable_fields(ef.context))
       => tag' \notin consumed]_vars


\* The step read PLAYER LIST or FINISH while the context was that of EVENT
\* DETAILS, and so ran the validation of the EVENT DETAILS part.
ClosesEventDetails ==
    /\ ReadGiven
    /\ ef.context = <<EVENT_DETAILS, None>>
    /\ tag' \in {PLAYER_LIST, FINISH}
    /\ checks'.event \in {STATUS_OK, TAG_ERROR_UNEXPECTED}

\* C33: fields accepted in EVENT DETAILS before a recoverable error (the
\* mandatory fields, the time limit fields and the address repeat counts)
\* still count as present when the validation of the part runs at PLAYER
\* LIST or FINISH.
C33_AcceptedStillCount ==
    [][(/\ ClosesEventDetails
        /\ MANDATORY_EVENT_FIELDS \subseteq accepted
        /\ accepted \cap TIME_LIMIT_FIELDS = {MINUTES_FOR_GAME})
       => checks'.event = STATUS_OK]_vars

\* What the code does: the validation counts the fields classified ok
\* since the context was last constructed, and no field before that.
C33_OnlySinceRebuilt ==
    [][ClosesEventDetails
       => (checks'.event = STATUS_OK
           <=> /\ MANDATORY_EVENT_FIELDS \subseteq consumed
               /\ consumed \cap TIME_LIMIT_FIELDS = {MINUTES_FOR_GAME})]_vars


---------------------------------------------------------------------------
\* C34: for every finite sequence of fields each dispatch returns one of
\* the defined statuses and the pass ends normally or through the
\* FieldTooLongError abort; no other exception escapes the pass, in
\* particular not for a COLUMN field written without a value, for a table
\* with no declared column, or for a TABLE END closing a table that has no
\* PIN or PIN1 column.
C34_NoOtherExceptionEscapes == pc # "crashed"

\* The exceptions that do escape: AttributeError from value.upper() in
\* _table_column for a COLUMN field without a value and from self._table
\* being None in _table_end, KeyError from the key _table_end makes of a
\* table whose record does not belong to its table type, and ValueError
\* from column_names.index(replaced_name) when a table without the PIN or
\* PIN1 column is expanded.
C34_EscapingExceptions ==
    pc = "crashed" =>
        \/ /\ status = "AttributeError"
           /\ field.name = COLUMN
           /\ field.vlen = -1
        \/ /\ status = "AttributeError"
           /\ field.name = TABLE_END
           /\ ~table.live
        \/ /\ status = "KeyError"
           /\ field.name = TABLE_END
           /\ table.live
           /\ get_key_for_context_at_end_table(table) \notin ExpectedKeys
        \/ /\ status \in {"ValueError", TAG_ERROR_UNEXPECTED,
                          TAG_ERROR_UNKNOWN}
           /\ table.live
           /\ table.replaced_name \notin Range(table.column_names)

\* A table without a declared column is marked broken and its fields are
\* inserted; nothing is raised.
C34_NoColumnsNoException ==
    [][(/\ pc = "rest"
        /\ table.live
        /\ table.column_names = <<>>
        /\ status' \in {STATUS_TABLE_END, TAG_ERROR_UNEXPECTED,
                        TAG_ERROR_UNKNOWN})
       => pc' # "crashed"]_vars


---------------------------------------------------------------------------
\* The step read a field other than TABLE END (with or without a value)
\* while the loop was between TABLE START and TABLE END.
ReadsCell ==
    /\ ReadGiven
    /\ pc = "rest"
    /\ switch = "_switch_values"
    /\ field'.name # TABLE_END

---------------------------------------------------------------------------
\* The step expanded a table that has the COMMENT column and at least one
\* row to its <name=value> pairs.
ExpandsComments ==
    /\ TakesMultiple
    /\ pc' = "appended"
    /\ COMMENT \in Range(table.column_names)
    /\ table.values # <<>>

EmittedNames(fields) == {fields[i].name : i \in DOMAIN fields}

\* C36: when a table is expanded a COMMENT column is emitted as the comment
\* kind that belongs inside the replaced record: for a table replacing PIN
\* records it is COMMENT_PIN (the comment inside a PIN fieldset), never
\* COMMENT_LIST (the comment before the first PIN).
C36_CommentOfReplacedRecord ==
    [][(ExpandsComments /\ table.replaced_name = PIN)
       => /\ COMMENT_PIN \in EmittedNames(emitted')
          /\ COMMENT_LIST \notin EmittedNames(emitted')]_vars

\* What the lookup gives: COMMENT_LIST for a table replacing PIN records
\* and COMMENT_PIN for one replacing PIN1 records.
C36_CommentAsLookedUp ==
    [][ExpandsComments
       => EmittedNames(emitted') \cap {COMMENT, COMMENT_LIST, COMMENT_PIN}
          = IF table.replaced_name = PIN THEN {COMMENT_LIST}
            ELSE {COMMENT_PIN}]_vars


---------------------------------------------------------------------------
\* C37: parse(stop_at=X), with X a part tag, classifies and inserts every
\* field before the first field whose tag is X and no field from that one
\* onward; with the default stop_at, EVENT DETAILS, only the first field,
\* EVENT DETAILS, is parsed.
C37_DefaultParsesEventDetails ==
    [][(/\ pc = "first"
        /\ stop_at = EVENT_DETAILS
        /\ tag' = EVENT_DETAILS)
       => /\ status' = STATUS_OK
          /\ emitted' = <<Inserted(EVENT_DETAILS, <<>>, STATUS_OK)>>]_vars

\* What the code does: the field whose tag is stop_at is not classified and
\* not inserted, the first field included, and nothing is read after it; a
\* field with another tag is not stopped at.
C37_StopsBeforeStopAt ==
    [][(pc \in {"first", "rest"} /\ stop_at \in PARSE_STOP_AT_FIELDS)
       => /\ (tag' = stop_at) <=> (pc' = "stopped")
          /\ pc' = "stopped"
             => /\ status' = None
                /\ emitted' = <<>>
                /\ ef' = ef
                /\ table' = table]_vars

C37_NothingAfterStop == [][pc # "stopped"]_vars


---------------------------------------------------------------------------
(* Builder.parse, checked in BuilderSpec *)

\* Item i of the dump does not have three elements, or has a key that is
\* no key of a tk Text dump, or an index not in line.column format, or an
\* index less than the index of the item before it.
BadItem(dump, i) ==
    \/ dump[i].len # DUMP_ITEM_LENGTH
    \/ dump[i].key \notin TK_TEXT_DUMP_KEYS
    \/ ~index_re(dump[i].index)
    \/ dump[i].index < (IF i = 1 THEN 1 ELSE dump[i - 1].index)

BadItems(dump) == {i \in DOMAIN dump : BadItem(dump, i)}

FirstBadItem(dump) == CHOOSE i \in BadItems(dump) : \A j \in BadItems(dump) : i <= j

BuildEnded == pc \in {"returned", "TypeError"}

C38_FatalUnlessItemLength ==
    (BuildEnded /\ BadItems(document) # {})
    => IF document[FirstBadItem(document)].len # DUMP_ITEM_LENGTH
       THEN /\ pc = "TypeError"
            /\ builder.fields_message \in {None, "Field name not expected"}
            /\ BuilderIsValid(builder)
            /\ ~builder.inserted
       ELSE /\ pc = "returned"
            /\ builder.fields_message \in
                 {"Key is not expected", "Index is not in expected format",
                  "Index compares less than previous index"}
            /\ ~builder.inserted
            /\ ~BuilderIsValid(builder)

\* The step is the turn of the loop of parse for a mark item whose name an
\* earlier mark item of the dump has set.
SetsMarkAgain ==
    /\ pc = "parse"
    /\ builder'.item = builder.item + 1
    /\ document[builder'.item].key = "mark"
    /\ document[builder'.item].value \in builder.marks_set

C39_FatalAfterMarkNamedMark ==
    [][(/\ pc = "parse"
        /\ builder'.item = builder.item + 1
        /\ document[builder'.item].key = "mark")
       => (builder'.fields_message = "mark is already set"
           <=> "mark" \in builder.marks_set)]_vars


---------------------------------------------------------------------------
(* The inserts offered in the EVENT DETAILS record, checked in HeaderSpec *)

\* The bindings were set for the EVENT DETAILS record as it is now.
BoundForRecord ==
    /\ header.context.part = EVENT_DETAILS
    /\ header.context.siblings = header.record

\* C40: in the editor the binding that inserts MINUTES FOR GAME is not
\* offered when any of MOVES FIRST SESSION, MINUTES FIRST SESSION, MOVES
\* SECOND SESSION, MINUTES SECOND SESSION or MINUTES REST OF GAME exists in
\* the EVENT DETAILS record, and the bindings that insert those fields are
\* not offered when MINUTES FOR GAME exists.
C40_TimeLimitInsertsExclusive ==
    BoundForRecord =>
        /\ header.record \cap Range(ORDERED_MANDATORY_3_SESSION) # {}
           => S_MFG.label \notin header.bound
        /\ MINUTES_FOR_GAME \in header.record
           => header.bound \cap Range(ORDERED_MANDATORY_3_SESSION) = {}

\* What the code does: the inserts of the five session fields are not
\* offered when MINUTES FOR GAME exists, and the insert of MINUTES FOR GAME
\* is offered whenever MINUTES FOR GAME itself does not exist.
C40_MinutesForGameOfferedUnlessPresent ==
    BoundForRecord =>
        /\ S_MFG.label \in header.bound
           <=> MINUTES_FOR_GAME \notin header.record
        /\ MINUTES_FOR_GAME \in header.record
           => header.bound \cap Range(ORDERED_MANDATORY_3_SESSION) = {}

\* MINUTES FOR GAME was inserted in a record that has session fields
C40_BothInRecord ==
    /\ BoundForRecord
    /\ MINUTES_FOR_GAME \in header.record
    /\ MOVES_FIRST_SESSION \in header.record

============================================================================
